---- MODULE Spec2Model ----
(***************************************************************************)
(* Model of the battery dispatch loop of aosol                             *)
(* (aosol/analise/analise_energia.py, analisa_upac_com_armazenamento) and  *)
(* of the battery model it calls; of the analysis without storage; of the  *)
(* legacy percentage battery (aosol/armazenamento/bateria.py); of the heat *)
(* pump controller (aosol/armazenamento/bomba_calor_aqs.py) and its        *)
(* simulation loop (aosol/analise/analise_bomba_calor.py); of the          *)
(* extraction profile (aosol/armazenamento/perfil_extraccao.py); and of    *)
(* the indicators (calcula_indicadores_autoconsumo).  Each component has   *)
(* its own specification over the same variables.                          *)
(*                                                                         *)
(* Quantities are exact rationals [n, d] (numerator, denominator > 0, in   *)
(* lowest terms); d = 0 with n = 1 stands for +infinity (an unbounded      *)
(* maximum power).  The arithmetic is that of the real numbers: rounding   *)
(* of the IEEE doubles the program computes with is not modelled.          *)
(***************************************************************************)
EXTENDS Integers, Sequences, FiniteSets, TLC

VARIABLES
    energia,    \* the data frame: columns consumo, autoproducao and, in saida, the output columns
    bat,        \* the bateria object passed to the call
    args,       \* intervalo, eficiencia_inversor, soc_0 (soc_0_none: soc_0 is None)
    pc,         \* "idle": outside the call; "loop": inside the for loop
    i,          \* loop index (0-based, as in the source)
    loc,        \* the call's locals: pv, carga, soc, energia_bidireccional_rede, ...
    anterior,   \* the output columns the frame held when the current call began
    chamadas,   \* number of calls made on the frame
    legado,     \* a legacy percentage battery (aosol/armazenamento/bateria.py): its fields
    ultima,     \* the last call made on legado: operation, request, returned amount, state before
    bc,         \* a BombaCalorAqs object (aosol/armazenamento/bomba_calor_aqs.py): its fields
    ctl,        \* the last call of calcula_temperatura_deposito_intervalo on bc: arguments and results
    sim,        \* a call of analisa_consumo_bomba_calor: arguments, position, locals, columns written
    px,         \* lookups made on a PerfilExtraccao object (aosol/armazenamento/perfil_extraccao.py)
    sem,        \* the columns analisa_upac_sem_armazenamento writes on a copy of the frame
    ind         \* the indicators calcula_indicadores_autoconsumo returned for the frame

\* the variables of the dispatch loop
despacho == <<energia, bat, args, pc, i, loc, anterior, chamadas>>

\* the variables of the other components
outros == <<legado, ultima, bc, ctl, sim, px, sem, ind>>

vars ==
    <<energia, bat, args, pc, i, loc, anterior, chamadas, legado, ultima, bc, ctl, sim, px,
      sem, ind>>

----------------------------------------------------------------------------
(* Rational arithmetic *)

Abs(x) == IF x < 0 THEN -x ELSE x

Sign(x) == IF x < 0 THEN -1 ELSE IF x > 0 THEN 1 ELSE 0

RECURSIVE GCD(_, _)
GCD(a, b) == IF b = 0 THEN a ELSE GCD(b, a % b)

Frac(n, d) ==
    IF d = 0 THEN [n |-> Sign(n), d |-> 0]
    ELSE LET s == IF d < 0 THEN -1 ELSE 1
             g == GCD(Abs(n), Abs(d))
         IN  [n |-> (s * n) \div g, d |-> (s * d) \div g]

Zero == Frac(0, 1)

Inf == Frac(1, 0)

RAdd(a, b) == Frac(a.n * b.d + b.n * a.d, a.d * b.d)

RSub(a, b) == Frac(a.n * b.d - b.n * a.d, a.d * b.d)

RMul(a, b) == Frac(a.n * b.n, a.d * b.d)

RDiv(a, b) == Frac(a.n * b.d, a.d * b.n)

RNeg(a) == [n |-> -a.n, d |-> a.d]

RLe(a, b) == a.n * b.d <= b.n * a.d

RLt(a, b) == a.n * b.d < b.n * a.d

RMin(a, b) == IF RLe(a, b) THEN a ELSE b

RMax(a, b) == IF RLe(a, b) THEN b ELSE a

----------------------------------------------------------------------------
(* Bounds and input domains *)

MaxRows == 2

MaxChamadas == 2

\* (consumo, autoproducao) of one row, in kWh: deficit, surplus, no load, no PV, balance
Linhas ==
    {<<Frac(1, 1), Frac(1, 2)>>, <<Frac(1, 1), Frac(2, 1)>>,
     <<Frac(0, 1), Frac(2, 1)>>, <<Frac(2, 1), Frac(0, 1)>>, <<Frac(1, 1), Frac(1, 1)>>}

Intervalos == {Frac(1, 1), Frac(1, 4)}

EficienciasInversor == {Frac(1, 1), Frac(9, 10)}

EficienciasBateria == {Frac(1, 1), Frac(9, 10)}

PotenciasMaximas == {Frac(0, 1), Frac(1, 4), Inf}

\* explicit seeds: empty, partly charged, full, and one above the usable window
Sementes == {Frac(0, 1), Frac(2, 5), Frac(1, 1), Frac(3, 2)}

Series(S) == UNION {[1..k -> S] : k \in 1..MaxRows}

----------------------------------------------------------------------------
(* Battery model *)

\* bateria(capacidade, soc_min, soc_max, eficiencia, pot_maxima)
Bateria(capacidade, soc_min, soc_max, eficiencia, pot_maxima) ==
    [capacidade_total      |-> capacidade,
     profundidade_descarga |-> RMul(RSub(soc_max, soc_min), capacidade),
     eficiencia            |-> eficiencia,
     pot_maxima            |-> pot_maxima]

\* bateria.calcula_energia_maximiza_autoconsumo(soc_anterior, demanda, intervalo)
\* returns (soc_actual, pot_carga, pot_descarga)
calcula_energia_maximiza_autoconsumo(b, soc_anterior, demanda, intervalo) ==
    LET max_descarga == RMin(b.pot_maxima,
                             RDiv(RMul(soc_anterior, b.eficiencia), intervalo))
        max_carga    == RMin(b.pot_maxima,
                             RDiv(RSub(b.profundidade_descarga, soc_anterior), intervalo))
        pot_descarga == RMin(max_descarga, RMax(Zero, demanda))
        pot_carga    == RMin(max_carga, RMax(Zero, RNeg(demanda)))
        soc_actual   == RSub(RAdd(soc_anterior, RMul(pot_carga, intervalo)),
                             RMul(RDiv(pot_descarga, b.eficiencia), intervalo))
    IN  [soc_actual |-> soc_actual, pot_carga |-> pot_carga, pot_descarga |-> pot_descarga]

Baterias ==
    {Bateria(Frac(5, 4), Frac(1, 10), Frac(9, 10), ef, pm) :
        ef \in EficienciasBateria, pm \in PotenciasMaximas}

----------------------------------------------------------------------------
(* Dispatch loop: analisa_upac_com_armazenamento *)

\* faulty variant: each row takes the value of the row after it, where there
\* is one
PotenciaKW_Seguinte(col, intervalo) ==
    [k \in 1..Len(col) |->
        RDiv(col[IF k < Len(col) THEN k + 1 ELSE k], intervalo)]

\* energia[col].values / intervalo
PotenciaKW(col, intervalo) == [k \in 1..Len(col) |-> RDiv(col[k], intervalo)]

\* np.zeros(n)
Zeros(n) == [k \in 1..n |-> Zero]

\* faulty variant: the default seed is twice the usable window instead of half of it
SocInicial_Dobro(soc_0_none, soc_0, b) ==
    IF soc_0_none THEN RMul(b.profundidade_descarga, Frac(2, 1)) ELSE soc_0

\* faulty variant: the caller's seed is ignored, the default is always taken
SocInicial_IgnoraSemente(soc_0_none, soc_0, b) ==
    RDiv(b.profundidade_descarga, Frac(2, 1))

\* faulty variant: a soc column already present in the frame seeds the run
SocInicial_Retoma(soc_0_none, soc_0, b) ==
    IF energia.saida.soc # <<>> THEN energia.saida.soc[Len(energia.saida.soc)]
    ELSE IF soc_0_none THEN RDiv(b.profundidade_descarga, Frac(2, 1)) ELSE soc_0

\* if soc_0 is None: soc_0 = bateria.profundidade_descarga / 2
SocInicial(soc_0_none, soc_0, b) ==
    IF soc_0_none THEN RDiv(b.profundidade_descarga, Frac(2, 1)) ELSE soc_0

\* faulty variant: the sign of the net demand is reversed
DemandaDc_SinalTrocado(carga, pv, eficiencia_inversor) ==
    [k \in 1..Len(carga) |-> RSub(pv[k], RDiv(carga[k], eficiencia_inversor))]

\* demanda_dc = carga/eficiencia_inversor - pv
DemandaDc(carga, pv, eficiencia_inversor) ==
    [k \in 1..Len(carga) |-> RSub(RDiv(carga[k], eficiencia_inversor), pv[k])]

\* faulty variant: every iteration starts from the seed
SocAnterior_SempreSemente(idx, soc, soc_0) == soc_0

\* soc_anterior = soc_0; if i > 0: soc_anterior = soc[i-1]
SocAnterior(idx, soc, soc_0) == IF idx > 0 THEN soc[idx] ELSE soc_0

\* faulty variant: the inverter efficiency is applied to the PV power only
EnergiaBidireccional_SoPV(carga_i, pv_i, pot_descarga, pot_carga, eficiencia_inversor, intervalo) ==
    RMul(RSub(carga_i,
              RSub(RAdd(RMul(pv_i, eficiencia_inversor), pot_descarga), pot_carga)),
         intervalo)

\* (carga[i] - (pv[i] + pot_descarga - pot_carga)*eficiencia_inversor)*intervalo
EnergiaBidireccional(carga_i, pv_i, pot_descarga, pot_carga, eficiencia_inversor, intervalo) ==
    RMul(RSub(carga_i,
              RMul(RSub(RAdd(pv_i, pot_descarga), pot_carga), eficiencia_inversor)),
         intervalo)

\* faulty variant: the power is stored without converting it to energy
EnergiaKWh_SemIntervalo(pot, intervalo) == pot

\* pot*intervalo
EnergiaKWh(pot, intervalo) == RMul(pot, intervalo)

\* faulty variant: the grid exchange is not clamped at zero
ConsumoRede_SemMaximo(ebr) == ebr

\* np.maximum(0, energia_bidireccional_rede)
ConsumoRede(ebr) == [k \in 1..Len(ebr) |-> RMax(Zero, ebr[k])]

\* faulty variant: the grid exchange is not negated
InjeccaoRede_SemNegacao(ebr) == [k \in 1..Len(ebr) |-> RMax(Zero, ebr[k])]

\* faulty variant: the size of the grid exchange, whatever its direction
InjeccaoRede_Modulo(ebr) ==
    [k \in 1..Len(ebr) |-> RMax(ebr[k], RNeg(ebr[k]))]

\* np.maximum(0, -energia_bidireccional_rede)
InjeccaoRede(ebr) == [k \in 1..Len(ebr) |-> RMax(Zero, RNeg(ebr[k]))]

\* energia["consumo"] - energia["consumo_rede"]
Autoconsumo(consumo, consumo_rede) ==
    [k \in 1..Len(consumo) |-> RSub(consumo[k], consumo_rede[k])]

SemColunas ==
    [consumo_rede |-> <<>>, injeccao_rede |-> <<>>, autoconsumo |-> <<>>,
     carga_bateria |-> <<>>, descarga_bateria |-> <<>>, soc |-> <<>>]

SemLocais ==
    [pv |-> <<>>, carga |-> <<>>, soc |-> <<>>, energia_bidireccional_rede |-> <<>>,
     carga_bateria |-> <<>>, descarga_bateria |-> <<>>, demanda_dc |-> <<>>,
     soc_0 |-> Zero]

\* no legacy battery has been built
LegadoParado ==
    /\ legado = [capacidade |-> Zero, soc |-> Zero, soc_min |-> Zero, soc_max |-> Zero,
                 num_ciclos |-> 0, acumulado |-> Zero]
    /\ ultima = [op |-> "nenhuma"]

\* no heat pump has been built
BombaCalorParada ==
    /\ bc = [construida |-> FALSE]
    /\ ctl = [op |-> "nenhuma"]

\* analisa_consumo_bomba_calor has not been called
SimulacaoParada == sim = [pc |-> "parado"]

\* no extraction profile has been queried
PerfilParado == px = [op |-> "nenhuma"]

\* the components other than the dispatch loop are not in use
OutrosParados == LegadoParado /\ BombaCalorParada /\ SimulacaoParada /\ PerfilParado

\* analisa_upac_sem_armazenamento has not been called
SemArmazenamentoParado == sem = [feito |-> FALSE]

\* calcula_indicadores_autoconsumo has not been called
IndicadoresParados == ind = [feito |-> FALSE]

\* no data frame is being analysed by the dispatch loop
DespachoParado ==
    /\ SemArmazenamentoParado
    /\ IndicadoresParados
    /\ energia = [consumo |-> <<>>, autoproducao |-> <<>>, saida |-> SemColunas]
    /\ bat = Bateria(Zero, Zero, Zero, Frac(1, 1), Zero)
    /\ args = [intervalo |-> Frac(1, 1), eficiencia_inversor |-> Frac(1, 1),
               soc_0_none |-> TRUE, soc_0 |-> Zero]
    /\ pc = "parado"
    /\ i = 0
    /\ loc = SemLocais
    /\ anterior = SemColunas
    /\ chamadas = 0

Init ==
    /\ \E rows \in Series(Linhas) :
          energia = [consumo      |-> [k \in 1..Len(rows) |-> rows[k][1]],
                     autoproducao |-> [k \in 1..Len(rows) |-> rows[k][2]],
                     saida        |-> SemColunas]
    /\ bat \in Baterias
    /\ \E iv \in Intervalos, ei \in EficienciasInversor, nn \in BOOLEAN,
          s \in Sementes :
          /\ nn => s = Zero
          /\ args = [intervalo |-> iv, eficiencia_inversor |-> ei,
                     soc_0_none |-> nn, soc_0 |-> s]
    /\ pc = "idle"
    /\ i = 0
    /\ loc = SemLocais
    /\ anterior = SemColunas
    /\ chamadas = 0
    /\ OutrosParados
    /\ SemArmazenamentoParado
    /\ IndicadoresParados

\* lines 193-204: entry of analisa_upac_com_armazenamento
Chama ==
    /\ pc = "idle"
    /\ chamadas < MaxChamadas
    /\ LET pv    == PotenciaKW(energia.autoproducao, args.intervalo)
           carga == PotenciaKW(energia.consumo, args.intervalo)
           n     == Len(pv)
       IN  loc' = [pv |-> pv, carga |-> carga, soc |-> Zeros(n),
                   energia_bidireccional_rede |-> Zeros(n),
                   carga_bateria |-> Zeros(n), descarga_bateria |-> Zeros(n),
                   soc_0 |-> SocInicial(args.soc_0_none, args.soc_0, bat),
                   demanda_dc |-> DemandaDc(carga, pv, args.eficiencia_inversor)]
    /\ i' = 0
    /\ pc' = "loop"
    /\ chamadas' = chamadas + 1
    /\ anterior' = energia.saida
    /\ UNCHANGED <<energia, bat, args>>
    /\ UNCHANGED outros

\* lines 206-216: one iteration of the loop
Itera ==
    /\ pc = "loop"
    /\ i < Len(loc.pv)
    /\ LET soc_anterior == SocAnterior(i, loc.soc, loc.soc_0)
           r == calcula_energia_maximiza_autoconsumo(bat, soc_anterior,
                                                     loc.demanda_dc[i + 1], args.intervalo)
       IN  loc' = [loc EXCEPT
                     !.soc[i + 1] = r.soc_actual,
                     !.energia_bidireccional_rede[i + 1] =
                         EnergiaBidireccional(loc.carga[i + 1], loc.pv[i + 1],
                                              r.pot_descarga, r.pot_carga,
                                              args.eficiencia_inversor, args.intervalo),
                     !.descarga_bateria[i + 1] = EnergiaKWh(r.pot_descarga, args.intervalo),
                     !.carga_bateria[i + 1] = EnergiaKWh(r.pot_carga, args.intervalo)]
    /\ i' = i + 1
    /\ UNCHANGED <<energia, bat, args, pc, anterior, chamadas>>
    /\ UNCHANGED outros

\* lines 218-225: the output columns are written and the frame is returned
Termina ==
    /\ pc = "loop"
    /\ i = Len(loc.pv)
    /\ LET cr == ConsumoRede(loc.energia_bidireccional_rede)
       IN  energia' = [energia EXCEPT !.saida =
                         [consumo_rede     |-> cr,
                          injeccao_rede    |-> InjeccaoRede(loc.energia_bidireccional_rede),
                          autoconsumo      |-> Autoconsumo(energia.consumo, cr),
                          carga_bateria    |-> loc.carga_bateria,
                          descarga_bateria |-> loc.descarga_bateria,
                          soc              |-> loc.soc]]
    /\ pc' = "idle"
    /\ UNCHANGED <<bat, args, i, loc, anterior, chamadas>>
    /\ UNCHANGED outros

Next == Chama \/ Itera \/ Termina

Spec == Init /\ [][Next]_vars

----------------------------------------------------------------------------
(* Vocabulary of the properties *)

\* the call has returned and energia holds the output columns
Feito == pc = "idle" /\ chamadas > 0

Saida == energia.saida

NLinhas == Len(energia.consumo)

DoD == bat.profundidade_descarga

REq(a, b) == a = b

RPos(a) == RLt(Zero, a)

\* the seed the caller passes is within the usable window (None selects the default)
SementeValida ==
    args.soc_0_none \/ (RLe(Zero, args.soc_0) /\ RLe(args.soc_0, DoD))

\* state of charge before row k (1-based) of the finished run
SocAntes(k) == IF k = 1 THEN loc.soc_0 ELSE Saida.soc[k - 1]

\* net DC demand of row k, consumo/inverter_eff - autoproducao
Demanda(k) ==
    RSub(RDiv(energia.consumo[k], args.eficiencia_inversor), energia.autoproducao[k])

----------------------------------------------------------------------------
(* C1: with a seed in [0, depth_of_discharge] (or the default seed), every *)
(* state of charge the loop records, while it runs and in the returned     *)
(* soc column, lies in [0, depth_of_discharge].                            *)
C1_SocDentroDaJanela ==
    SementeValida =>
        /\ pc = "loop" => \A k \in 1..i : RLe(Zero, loc.soc[k]) /\ RLe(loc.soc[k], DoD)
        /\ Feito => \A k \in 1..NLinhas :
                        RLe(Zero, Saida.soc[k]) /\ RLe(Saida.soc[k], DoD)

\* a valid run that fills the battery in one row and empties it in the next
C1_Witness ==
    /\ Feito /\ SementeValida /\ NLinhas = 2
    /\ Saida.soc[1] = DoD /\ Saida.soc[2] = Zero
    /\ RPos(Saida.carga_bateria[1]) /\ RPos(Saida.descarga_bateria[2])

----------------------------------------------------------------------------
(* C2 as stated: in every output row autoconsumo + injeccao_rede +         *)
(* carga_bateria = autoproducao*inverter_eff + descarga_bateria.           *)
C2_Original ==
    Feito => \A k \in 1..NLinhas :
        RAdd(RAdd(Saida.autoconsumo[k], Saida.injeccao_rede[k]), Saida.carga_bateria[k])
          = RAdd(RMul(energia.autoproducao[k], args.eficiencia_inversor),
                 Saida.descarga_bateria[k])

(* C2 amended: the battery sits on the DC side of the inverter, so in      *)
(* every output row autoconsumo + injeccao_rede +                          *)
(* carga_bateria*inverter_eff = (autoproducao + descarga_bateria) *        *)
(* inverter_eff.                                                           *)
C2_ConservacaoLadoDC ==
    Feito => \A k \in 1..NLinhas :
        RAdd(RAdd(Saida.autoconsumo[k], Saida.injeccao_rede[k]),
             RMul(Saida.carga_bateria[k], args.eficiencia_inversor))
          = RMul(RAdd(energia.autoproducao[k], Saida.descarga_bateria[k]),
                 args.eficiencia_inversor)

\* a lossy inverter, one row that charges and one that discharges
C2_Witness ==
    /\ Feito /\ args.eficiencia_inversor # Frac(1, 1) /\ NLinhas = 2
    /\ RPos(Saida.carga_bateria[1]) /\ RPos(Saida.descarga_bateria[2])

----------------------------------------------------------------------------
(* C3 as stated: in every output row autoconsumo + consumo_rede = consumo   *)
(* and 0 <= autoconsumo <= consumo, the series being non-negative.         *)
C3_Original ==
    Feito => \A k \in 1..NLinhas :
        /\ RAdd(Saida.autoconsumo[k], Saida.consumo_rede[k]) = energia.consumo[k]
        /\ RLe(Zero, Saida.autoconsumo[k])
        /\ RLe(Saida.autoconsumo[k], energia.consumo[k])

(* C3 amended: in every output row autoconsumo + consumo_rede = consumo    *)
(* and autoconsumo <= consumo; 0 <= autoconsumo when, in addition, the     *)
(* seed lies in [0, depth_of_discharge].                                   *)
C3_CargaCoberta ==
    Feito => \A k \in 1..NLinhas :
        /\ RAdd(Saida.autoconsumo[k], Saida.consumo_rede[k]) = energia.consumo[k]
        /\ RLe(Saida.autoconsumo[k], energia.consumo[k])
        /\ SementeValida => RLe(Zero, Saida.autoconsumo[k])

\* a row whose load is covered partly on site and partly by the grid
C3_Witness ==
    Feito /\ SementeValida /\ \E k \in 1..NLinhas :
        RPos(Saida.consumo_rede[k]) /\ RPos(Saida.autoconsumo[k])

----------------------------------------------------------------------------
(* C4: greedy policy.  In every output row, grid import is positive only   *)
(* if the battery discharges min(max_power, previous_soc*efficiency /      *)
(* interval), and grid injection is positive only if it charges            *)
(* min(max_power, (depth_of_discharge - previous_soc)/interval).           *)
C4_PoliticaGulosa ==
    Feito => \A k \in 1..NLinhas :
        /\ RPos(Saida.consumo_rede[k]) =>
              RDiv(Saida.descarga_bateria[k], args.intervalo)
                = RMin(bat.pot_maxima,
                       RDiv(RMul(SocAntes(k), bat.eficiencia), args.intervalo))
        /\ RPos(Saida.injeccao_rede[k]) =>
              RDiv(Saida.carga_bateria[k], args.intervalo)
                = RMin(bat.pot_maxima,
                       RDiv(RSub(DoD, SocAntes(k)), args.intervalo))

\* the second row imports while discharging, after a first row that injected while charging
C4_Witness ==
    /\ Feito /\ NLinhas = 2
    /\ RPos(Saida.injeccao_rede[1]) /\ RPos(Saida.carga_bateria[1])
    /\ RPos(Saida.consumo_rede[2]) /\ RPos(Saida.descarga_bateria[2])

----------------------------------------------------------------------------
(* C5: in every output row carga_bateria and descarga_bateria are at most  *)
(* max_power*interval, for every interval and every seed; and, the seed    *)
(* being within the usable window, in a surplus row what the battery does  *)
(* not take is injected: injeccao_rede = (autoproducao - carga_bateria) *  *)
(* inverter_eff - consumo.                                                 *)
C5_PotenciaMaxima ==
    Feito => \A k \in 1..NLinhas :
        /\ RLe(Saida.carga_bateria[k], RMul(bat.pot_maxima, args.intervalo))
        /\ RLe(Saida.descarga_bateria[k], RMul(bat.pot_maxima, args.intervalo))
        /\ (SementeValida /\ RLt(Demanda(k), Zero)) =>
              Saida.injeccao_rede[k]
                = RSub(RMul(RSub(energia.autoproducao[k], Saida.carga_bateria[k]),
                            args.eficiencia_inversor),
                       energia.consumo[k])

\* a quarter-hour interval where both the charge and the discharge hit the power cap
C5_Witness ==
    /\ Feito /\ NLinhas = 2 /\ args.intervalo = Frac(1, 4) /\ bat.pot_maxima = Frac(1, 4)
    /\ Saida.carga_bateria[1] = Frac(1, 16) /\ RPos(Saida.injeccao_rede[1])
    /\ Saida.descarga_bateria[2] = Frac(1, 16)

----------------------------------------------------------------------------
(* C6: for every row, soc - previous soc (the seed for the first row) =    *)
(* carga_bateria - descarga_bateria/efficiency.                            *)
C6_EficienciaNaDescarga ==
    Feito => \A k \in 1..NLinhas :
        RSub(Saida.soc[k], SocAntes(k))
          = RSub(Saida.carga_bateria[k],
                 RDiv(Saida.descarga_bateria[k], bat.eficiencia))

\* a lossy battery charged in the first row and discharged in the second
C6_Witness ==
    /\ Feito /\ NLinhas = 2 /\ bat.eficiencia = Frac(9, 10)
    /\ RPos(Saida.carga_bateria[1]) /\ RPos(Saida.descarga_bateria[2])
    /\ Saida.soc[2] # Saida.soc[1]

----------------------------------------------------------------------------
\* every row has a deficit: consumo/inverter_eff - autoproducao > 0
SoDefice == \A k \in 1..NLinhas : RLt(Zero, Demanda(k))

\* every row has a PV surplus: consumo/inverter_eff - autoproducao < 0
SoExcedente == \A k \in 1..NLinhas : RLt(Demanda(k), Zero)

(* C7 as stated: seeded with soc_0 = 0 on an all-deficit series, every row *)
(* has descarga_bateria = 0 and consumo_rede = consumo.                    *)
C7_Original ==
    (Feito /\ ~args.soc_0_none /\ args.soc_0 = Zero /\ SoDefice) =>
        \A k \in 1..NLinhas :
            /\ Saida.descarga_bateria[k] = Zero
            /\ Saida.consumo_rede[k] = energia.consumo[k]

(* C7 amended: seeded with soc_0 = 0 on an all-deficit series, every row   *)
(* has descarga_bateria = 0 and consumo_rede = consumo -                   *)
(* autoproducao*inverter_eff (the PV still covers part of the load).       *)
C7_BateriaVaziaSoDefice ==
    (Feito /\ ~args.soc_0_none /\ args.soc_0 = Zero /\ SoDefice) =>
        \A k \in 1..NLinhas :
            /\ Saida.descarga_bateria[k] = Zero
            /\ Saida.consumo_rede[k]
                 = RSub(energia.consumo[k],
                        RMul(energia.autoproducao[k], args.eficiencia_inversor))

\* an empty battery, two deficit rows, PV present in the first and absent in the second
C7_Witness ==
    /\ Feito /\ ~args.soc_0_none /\ args.soc_0 = Zero /\ SoDefice /\ NLinhas = 2
    /\ RPos(energia.autoproducao[1]) /\ energia.autoproducao[2] = Zero
    /\ bat.pot_maxima = Inf

----------------------------------------------------------------------------
(* C8 as stated: seeded with soc_0 = depth_of_discharge on an all-surplus  *)
(* series, every row has carga_bateria = 0 and injeccao_rede =             *)
(* autoproducao*inverter_eff.                                              *)
C8_Original ==
    (Feito /\ ~args.soc_0_none /\ args.soc_0 = DoD /\ SoExcedente) =>
        \A k \in 1..NLinhas :
            /\ Saida.carga_bateria[k] = Zero
            /\ Saida.injeccao_rede[k]
                 = RMul(energia.autoproducao[k], args.eficiencia_inversor)

(* C8 amended: seeded with soc_0 = depth_of_discharge on an all-surplus    *)
(* series, every row has carga_bateria = 0 and injeccao_rede =             *)
(* autoproducao*inverter_eff - consumo (the load is served first).         *)
C8_BateriaCheiaSoExcedente ==
    (Feito /\ ~args.soc_0_none /\ args.soc_0 = DoD /\ SoExcedente) =>
        \A k \in 1..NLinhas :
            /\ Saida.carga_bateria[k] = Zero
            /\ Saida.injeccao_rede[k]
                 = RSub(RMul(energia.autoproducao[k], args.eficiencia_inversor),
                        energia.consumo[k])

\* a full battery, two surplus rows, with and without load
C8_Witness ==
    /\ Feito /\ ~args.soc_0_none /\ args.soc_0 = DoD /\ SoExcedente /\ NLinhas = 2
    /\ RPos(energia.consumo[1]) /\ energia.consumo[2] = Zero
    /\ bat.pot_maxima = Inf

----------------------------------------------------------------------------
(* C9: a second call on the frame the first call returned (same consumo    *)
(* and autoproducao, same battery, interval, inverter efficiency and seed, *)
(* output columns present) returns the same six output columns.            *)
C9_Idempotente ==
    (Feito /\ chamadas >= 2) => Saida = anterior

\* the second call has returned on a frame whose first run moved the battery both ways
C9_Witness ==
    /\ Feito /\ chamadas = 2 /\ NLinhas = 2
    /\ anterior.soc # <<>>
    /\ RPos(Saida.carga_bateria[1]) /\ RPos(Saida.descarga_bateria[2])
    /\ Saida.soc[2] # loc.soc_0

----------------------------------------------------------------------------
\* x agrees with m/1000 to three decimal places (assertAlmostEqual(.., .., 3))
Aprox(x, m) == LET dif == RSub(x, Frac(m, 1000))
               IN  RLt(RNeg(Frac(1, 2000)), dif) /\ RLt(dif, Frac(1, 2000))

\* capacity 1.25 kWh, soc_min 0.1, soc_max 0.9, efficiency 0.9, default maximum power,
\* inverter efficiency 1, seed 1.0, one 1-hour row with consumo 1 and autoproducao 0.5
Cenario3 ==
    /\ bat = Bateria(Frac(5, 4), Frac(1, 10), Frac(9, 10), Frac(9, 10), Inf)
    /\ args = [intervalo |-> Frac(1, 1), eficiencia_inversor |-> Frac(1, 1),
               soc_0_none |-> FALSE, soc_0 |-> Frac(1, 1)]
    /\ energia.consumo = <<Frac(1, 1)>>
    /\ energia.autoproducao = <<Frac(1, 2)>>

(* C10 as stated: the golden scenario yields descarga_bateria ~ 0.556,     *)
(* autoconsumo = 1.0 and soc ~ 0.444.                                      *)
C10_Original ==
    (Feito /\ Cenario3) =>
        /\ Aprox(Saida.descarga_bateria[1], 556)
        /\ Saida.autoconsumo[1] = Frac(1, 1)
        /\ Aprox(Saida.soc[1], 444)

(* C10 amended: the golden scenario yields descarga_bateria = 0.5 (the     *)
(* energy delivered; 0.5/0.9 ~ 0.556 is what leaves the battery),          *)
(* autoconsumo = 1.0, consumo_rede = 0 and soc = 1 - 0.5/0.9 ~ 0.444.      *)
C10_Cenario3 ==
    (Feito /\ Cenario3) =>
        /\ Saida.descarga_bateria[1] = Frac(1, 2)
        /\ Saida.autoconsumo[1] = Frac(1, 1)
        /\ Saida.consumo_rede[1] = Zero
        /\ Saida.soc[1] = Frac(4, 9)
        /\ Aprox(Saida.soc[1], 444)
        /\ Aprox(RSub(loc.soc_0, Saida.soc[1]), 556)

\* the golden scenario has run
C10_Witness == Feito /\ Cenario3 /\ chamadas = 1

----------------------------------------------------------------------------
(* Legacy percentage battery: aosol/armazenamento/bateria.py               *)
(* soc, soc_min and soc_max are percentages of capacidade.                 *)

MaxOps == 4

Cem == Frac(100, 1)

\* bateria(capacidade, soc_min, soc_max): the fields __init__ sets
BateriaLegada(capacidade, soc_min, soc_max) ==
    [capacidade |-> capacidade, soc |-> Zero, soc_min |-> soc_min, soc_max |-> soc_max,
     num_ciclos |-> 0, acumulado |-> Zero]

\* np.max(a, 0): the second positional argument of np.max is the axis, and
\* the reduction of a scalar over axis 0 is the scalar itself
NpMax(a, axis) == a

\* faulty variant: the energy is taken as a fraction, not a percentage, of the capacity
EnergiaDoSoc_SemPercentagem(soc, capacidade) == RMul(soc, capacidade)

\* (soc / 100) * capacidade: the energy a span of state of charge stands for
EnergiaDoSoc(soc, capacidade) == RMul(RDiv(soc, Cem), capacidade)

\* faulty variant: the accumulator is never reduced when a cycle is counted
AcumulaCiclosCarregamento_SemReducao(b, energia_carregada) ==
    LET acc == RAdd(b.acumulado, energia_carregada)
    IN  IF RLe(b.capacidade, acc)
        THEN [b EXCEPT !.num_ciclos = b.num_ciclos + 1, !.acumulado = acc]
        ELSE [b EXCEPT !.acumulado = acc]

\* bateria._acumula_ciclos_carregamento(energia_carregada)
AcumulaCiclosCarregamento(b, energia_carregada) ==
    LET acc == RAdd(b.acumulado, energia_carregada)
    IN  IF RLe(b.capacidade, acc)
        THEN [b EXCEPT !.num_ciclos = b.num_ciclos + 1,
                       !.acumulado = RSub(acc, b.capacidade)]
        ELSE [b EXCEPT !.acumulado = acc]

\* faulty variant: the request is stored whole, whatever room is left
carrega_bateria_SemLimite(b, energia_carregar) ==
    LET energia_actual == EnergiaDoSoc(b.soc, b.capacidade)
        soc_final == RMul(RDiv(RAdd(energia_actual, energia_carregar), b.capacidade), Cem)
    IN  [b   |-> AcumulaCiclosCarregamento([b EXCEPT !.soc = soc_final], energia_carregar),
         ret |-> energia_carregar]

\* bateria.carrega_bateria(energia_carregar): the battery after the call and
\* the value returned
carrega_bateria(b, energia_carregar) ==
    LET soc_possivel     == NpMax(RSub(b.soc_max, b.soc), 0)
        energia_possivel == EnergiaDoSoc(soc_possivel, b.capacidade)
        energia_actual   == EnergiaDoSoc(b.soc, b.capacidade)
        soc_final == RMul(RDiv(RAdd(energia_actual, energia_carregar), b.capacidade), Cem)
    IN  IF RLt(energia_possivel, energia_carregar)
        THEN [b   |-> AcumulaCiclosCarregamento([b EXCEPT !.soc = b.soc_max],
                                                energia_possivel),
              ret |-> energia_possivel]
        ELSE [b   |-> AcumulaCiclosCarregamento([b EXCEPT !.soc = soc_final],
                                                energia_carregar),
              ret |-> energia_carregar]

\* bateria.descarrega_bateria(energia_descarregar): the battery after the call
\* and the value returned
descarrega_bateria(b, energia_descarregar) ==
    LET soc_possivel     == NpMax(RSub(b.soc, b.soc_min), 0)
        energia_possivel == EnergiaDoSoc(soc_possivel, b.capacidade)
        energia_actual   == EnergiaDoSoc(b.soc, b.capacidade)
        soc_final == RMul(RDiv(RSub(energia_actual, energia_descarregar), b.capacidade), Cem)
    IN  IF RLt(energia_possivel, energia_descarregar)
        THEN [b |-> [b EXCEPT !.soc = b.soc_min], ret |-> energia_possivel]
        ELSE [b |-> [b EXCEPT !.soc = soc_final], ret |-> energia_descarregar]

\* the batteries of bateria_test.py and one that uses its whole capacity
BateriasLegadas ==
    {BateriaLegada(Frac(6, 5), Frac(20, 1), Frac(80, 1)),
     BateriaLegada(Frac(1, 1), Frac(20, 1), Frac(80, 1)),
     BateriaLegada(Frac(1, 1), Zero, Cem)}

\* the amounts of energy a caller asks to store or to draw, kWh
Pedidos == {Zero, Frac(3, 10), Frac(3, 5), Frac(1, 1), Frac(6, 5)}

\* a freshly built battery, on which nothing has been called
InitLegado ==
    /\ DespachoParado
    /\ BombaCalorParada
    /\ SimulacaoParada
    /\ PerfilParado
    /\ legado \in BateriasLegadas
    /\ ultima = [op |-> "nenhuma", n |-> 0, pedido |-> Zero, devolvido |-> Zero,
                 antes |-> legado, total_carregado |-> Zero]

\* a call of carrega_bateria
Carrega ==
    /\ ultima.n < MaxOps
    /\ \E e \in Pedidos :
          LET r == carrega_bateria(legado, e)
          IN  /\ legado' = r.b
              /\ ultima' = [op |-> "carrega", n |-> ultima.n + 1, pedido |-> e,
                            devolvido |-> r.ret, antes |-> legado,
                            total_carregado |-> RAdd(ultima.total_carregado, r.ret)]
    /\ UNCHANGED <<despacho, bc, ctl, sim, px, sem, ind>>

\* a call of descarrega_bateria
Descarrega ==
    /\ ultima.n < MaxOps
    /\ \E e \in Pedidos :
          LET r == descarrega_bateria(legado, e)
          IN  /\ legado' = r.b
              /\ ultima' = [op |-> "descarrega", n |-> ultima.n + 1, pedido |-> e,
                            devolvido |-> r.ret, antes |-> legado,
                            total_carregado |-> ultima.total_carregado]
    /\ UNCHANGED <<despacho, bc, ctl, sim, px, sem, ind>>

NextLegado == Carrega \/ Descarrega

SpecLegado == InitLegado /\ [][NextLegado]_vars

----------------------------------------------------------------------------
(* C11: a call of carrega_bateria(e), e >= 0, returns min(e, (soc_max -    *)
(* soc)/100*capacidade), raises soc by returned/capacidade*100, and leaves *)
(* soc at or below soc_max.                                                *)
C11_CargaLimitada ==
    ultima.op = "carrega" =>
        /\ ultima.devolvido =
              RMin(ultima.pedido,
                   RMul(RDiv(RSub(ultima.antes.soc_max, ultima.antes.soc), Cem),
                        ultima.antes.capacidade))
        /\ RSub(legado.soc, ultima.antes.soc) =
              RMul(RDiv(ultima.devolvido, legado.capacidade), Cem)
        /\ RLe(legado.soc, legado.soc_max)

\* a battery that already held charge was asked for more than the room left
\* and stored only that room
C11_Witness ==
    /\ ultima.op = "carrega"
    /\ RLt(Zero, ultima.devolvido)
    /\ RLt(ultima.devolvido, ultima.pedido)
    /\ RLt(Zero, ultima.antes.soc)

\* the energy held above soc_min, never negative
AcimaDoMinimo(b) ==
    RMax(Zero, RMul(RDiv(RSub(b.soc, b.soc_min), Cem), b.capacidade))

(* C12: a call of descarrega_bateria(e), e >= 0, returns d with            *)
(* 0 <= d <= e and d = min(e, energy held above soc_min), never raises     *)
(* soc, and leaves soc at or above soc_min; this covers the fresh battery, *)
(* whose soc is 0.                                                         *)
C12_DescargaLimitada ==
    ultima.op = "descarrega" =>
        /\ RLe(Zero, ultima.devolvido)
        /\ RLe(ultima.devolvido, ultima.pedido)
        /\ ultima.devolvido = RMin(ultima.pedido, AcimaDoMinimo(ultima.antes))
        /\ RLe(legado.soc, ultima.antes.soc)
        /\ RLe(legado.soc_min, legado.soc)

(* C13: num_ciclos is floor(total energy stored / capacidade), the         *)
(* accumulator stays in [0, capacidade), and descarrega_bateria changes    *)
(* neither of them.                                                        *)
C13_CiclosContados ==
    /\ RLe(RMul(Frac(legado.num_ciclos, 1), legado.capacidade), ultima.total_carregado)
    /\ RLt(ultima.total_carregado,
           RMul(Frac(legado.num_ciclos + 1, 1), legado.capacidade))
    /\ RLe(Zero, legado.acumulado)
    /\ RLt(legado.acumulado, legado.capacidade)
    /\ ultima.op = "descarrega" =>
          /\ legado.num_ciclos = ultima.antes.num_ciclos
          /\ legado.acumulado = ultima.antes.acumulado

\* two full cycles have been counted and the last call was a discharge that
\* delivered energy
C13_Witness ==
    /\ legado.num_ciclos = 2
    /\ ultima.op = "descarrega"
    /\ RLt(Zero, ultima.devolvido)

----------------------------------------------------------------------------
(* Heat pump with hot-water tank: aosol/armazenamento/bomba_calor_aqs.py   *)
(* Temperatures in degrees Celsius, energies in kWh per one-hour interval. *)

\* ModoOperacaoBombaCalor: the values of the enumeration
ECO == 0

AUT == 1

PV == 2

Modos == {ECO, AUT, PV}

\* faulty variant: the distance between the modes, whatever the direction
ModoSub_SemSinal(a, b) == IF a < b THEN b - a ELSE a - b

\* ModoOperacaoBombaCalor.__sub__
ModoSub(a, b) == a - b

Num(k) == Frac(k, 1)

\* ParametrosBombaCalor(): the defaults of the dataclass
ParametrosBombaCalor ==
    [SP1 |-> Num(52), SP2 |-> Num(60), SP3 |-> Num(45), SP5 |-> Num(55), SP6 |-> Num(65),
     r0 |-> Num(5), r7 |-> Num(15), usa_resist |-> FALSE, modo |-> ECO]

\* BombaCalorAqs(pot_termica_bc, cop, pot_resist, params, vol, bu): the fields
\* __init__ sets.  poder_calorifico_deposito = RHO_W*vol*CPW_KW and
\* u_kw = (1.023*vol + 1.293)/1000 are both fixed by vol; deposito is the pair
\* of them.  The controller is homogeneous in the energies, so with the
\* energies measured in a suitable unit a pair stands for the tank whose
\* u_kw/poder_calorifico_deposito is the pair's ratio.
BombaCalorAqs(pot_termica_bc, cop, pot_resist, params, deposito, bu) ==
    [construida |-> TRUE,
     pot_termica_bc |-> pot_termica_bc, cop |-> cop, pot_resist |-> pot_resist,
     params |-> params,
     poder_calorifico_deposito |-> deposito[1], u_kw |-> deposito[2],
     bu |-> bu]

\* lines 425-442: the thresholds of the operating mode
Limites(params, modo_op) ==
    IF modo_op = ECO THEN
        LET t_max_bc == RMin(params.SP1, params.SP5)
            t_min_bc == RSub(t_max_bc, params.r0)
        IN  [t_max_s |-> params.SP1, t_max_bc |-> t_max_bc, t_min_bc |-> t_min_bc,
             t_min_s |-> IF params.usa_resist THEN params.SP3 ELSE t_min_bc]
    ELSE IF modo_op = AUT THEN
        LET t_max_bc == RMin(params.SP2, params.SP5)
            t_min_bc == RSub(t_max_bc, params.r0)
        IN  [t_max_s |-> params.SP2, t_max_bc |-> t_max_bc, t_min_bc |-> t_min_bc,
             t_min_s |-> RMin(RSub(params.SP2, params.r7), t_min_bc)]
    ELSE
        LET t_max_bc == RMin(params.SP6, params.SP5)
            t_min_bc == RSub(t_max_bc, params.r0)
        IN  [t_max_s |-> params.SP6, t_max_bc |-> t_max_bc, t_min_bc |-> t_min_bc,
             t_min_s |-> RMin(RSub(params.SP6, params.r7), t_min_bc)]

\* faulty variant: a tank that is not warming never starts the compressor
potencia_bomba_calor_SoSubida(b, deriv_t, t_actual, t_max_bc, t_min_bc, modo_op, modo_op_anterior) ==
    IF RLt(Zero, deriv_t) /\ RLt(t_actual, t_max_bc) THEN b.pot_termica_bc ELSE Zero

\* BombaCalorAqs._potencia_bomba_calor
potencia_bomba_calor(b, deriv_t, t_actual, t_max_bc, t_min_bc, modo_op, modo_op_anterior) ==
    LET bc_ligada_subida       == RLe(Zero, deriv_t) /\ RLt(t_actual, t_max_bc)
        bc_ligada_descida      == RLt(deriv_t, Zero) /\ RLt(t_actual, t_min_bc)
        bc_ligada_mudanca_modo == ModoSub(modo_op, modo_op_anterior) > 0
    IN  IF bc_ligada_subida \/ bc_ligada_descida \/ bc_ligada_mudanca_modo
        THEN b.pot_termica_bc
        ELSE Zero

\* abs() of a rational
RAbs(a) == [n |-> Abs(a.n), d |-> a.d]

\* BombaCalorAqs._energia_resistencia
energia_resistencia(b, modo, deriv_t, t_prox_dep, t_max_s, t_min_s) ==
    IF modo = ECO THEN
        LET e_prox_dep == RMul(b.poder_calorifico_deposito, RSub(t_prox_dep, t_min_s))
        IN  IF b.params.usa_resist /\ RLt(e_prox_dep, Zero)
            THEN RMin(RAbs(e_prox_dep), b.pot_resist)
            ELSE Zero
    ELSE
        LET bu_ligada_subida  == RLt(Zero, deriv_t) /\ RLt(t_prox_dep, t_max_s)
            bu_ligada_descida == RLt(deriv_t, Zero) /\ RLt(t_prox_dep, t_min_s)
        IN  IF bu_ligada_subida \/ bu_ligada_descida
            THEN RMin(RMul(b.poder_calorifico_deposito, RSub(t_max_s, t_prox_dep)),
                      b.pot_resist)
            ELSE Zero

\* BombaCalorAqs.calcula_temperatura_sala_deposito
calcula_temperatura_sala_deposito(b, t_int, t_ext) ==
    RSub(t_int, RMul(b.bu, RSub(t_int, t_ext)))

\* line 475: cc = 0.9
CoefDegradacao == Frac(9, 10)

\* faulty variant: the consumption is computed even when f_cop is not positive
EnergiaUsadaBc_SemGuarda(b, e_hp) ==
    LET cr    == RMin(RDiv(e_hp, b.pot_termica_bc), Num(1))
        denom == RAdd(RSub(Num(1), CoefDegradacao), RMul(CoefDegradacao, cr))
        f_cop == RDiv(cr, denom)
    IN  [cr |-> cr, f_cop |-> f_cop,
         e_used_bc |-> RDiv(e_hp, RMul(b.cop, f_cop)),
         erro |-> b.pot_termica_bc = Zero \/ denom = Zero \/ RMul(b.cop, f_cop) = Zero]

\* lines 473-479: the electricity the compressor uses for e_hp; erro tells
\* that a division by zero is raised
EnergiaUsadaBc(b, e_hp) ==
    LET cr    == RMin(RDiv(e_hp, b.pot_termica_bc), Num(1))
        denom == RAdd(RSub(Num(1), CoefDegradacao), RMul(CoefDegradacao, cr))
        f_cop == RDiv(cr, denom)
    IN  [cr |-> cr, f_cop |-> f_cop,
         e_used_bc |-> IF RLt(Zero, f_cop) THEN RDiv(e_hp, RMul(b.cop, f_cop)) ELSE Zero,
         erro |-> \/ b.pot_termica_bc = Zero
                  \/ denom = Zero
                  \/ RLt(Zero, f_cop) /\ RMul(b.cop, f_cop) = Zero]

\* faulty variant: the fall branch is not capped at the nominal power
calcula_temperatura_deposito_intervalo_SemTecto(b, t_sala, t_deposito_actual, t_deposito_anterior, e_extr_aqs, modo_op, modo_op_anterior) ==
    LET lim      == Limites(b.params, modo_op)
        C        == b.poder_calorifico_deposito
        e_lost_s == RMul(b.u_kw, RSub(t_deposito_actual, t_sala))
        deriv_t  == RSub(t_deposito_actual, t_deposito_anterior)
        p_hp     == potencia_bomba_calor(b, deriv_t, t_deposito_actual, lim.t_max_bc,
                                         lim.t_min_bc, modo_op, modo_op_anterior)
        t_prox_0 == RAdd(t_deposito_actual,
                         RDiv(RSub(RSub(p_hp, e_lost_s), e_extr_aqs), C))
        e_hp_subida ==
            IF RLt(lim.t_max_s, t_prox_0)
            THEN RAdd(RAdd(e_lost_s, e_extr_aqs),
                      RMul(C, RSub(lim.t_max_bc, t_deposito_actual)))
            ELSE p_hp
        e_hp_descida ==
            IF RLt(t_prox_0, lim.t_min_bc)
            THEN RAdd(RAdd(e_lost_s, e_extr_aqs),
                      RMul(C, RSub(lim.t_min_bc, t_prox_0)))
            ELSE Zero
        e_hp       == RMax(e_hp_subida, e_hp_descida)
        t_prox_dep == RAdd(t_deposito_actual,
                           RDiv(RSub(RSub(e_hp, e_lost_s), e_extr_aqs), C))
        e_bu       == energia_resistencia(b, modo_op, deriv_t, t_prox_dep,
                                          lim.t_max_s, lim.t_min_s)
        t_deposito_prox ==
            RAdd(t_deposito_actual,
                 RDiv(RSub(RSub(RAdd(e_hp, e_bu), e_lost_s), e_extr_aqs), C))
        u == EnergiaUsadaBc(b, e_hp)
    IN  [t_deposito_prox |-> t_deposito_prox, e_hp |-> e_hp, e_bu |-> e_bu,
         e_used_bc |-> u.e_used_bc, e_lost_s |-> e_lost_s,
         lim |-> lim, deriv_t |-> deriv_t, p_hp |-> p_hp, t_prox_0 |-> t_prox_0,
         e_hp_subida |-> e_hp_subida, e_hp_descida |-> e_hp_descida,
         t_prox_dep |-> t_prox_dep, cr |-> u.cr, f_cop |-> u.f_cop,
         erro |-> u.erro \/ C = Zero]

\* BombaCalorAqs.calcula_temperatura_deposito_intervalo: the values it
\* returns (t_deposito_prox, e_hp, e_bu, e_used_bc, e_lost_s) and its locals
calcula_temperatura_deposito_intervalo(b, t_sala, t_deposito_actual, t_deposito_anterior, e_extr_aqs, modo_op, modo_op_anterior) ==
    LET lim      == Limites(b.params, modo_op)
        C        == b.poder_calorifico_deposito
        e_lost_s == RMul(b.u_kw, RSub(t_deposito_actual, t_sala))
        deriv_t  == RSub(t_deposito_actual, t_deposito_anterior)
        p_hp     == potencia_bomba_calor(b, deriv_t, t_deposito_actual, lim.t_max_bc,
                                         lim.t_min_bc, modo_op, modo_op_anterior)
        t_prox_0 == RAdd(t_deposito_actual,
                         RDiv(RSub(RSub(p_hp, e_lost_s), e_extr_aqs), C))
        e_hp_subida ==
            IF RLt(lim.t_max_s, t_prox_0)
            THEN RAdd(RAdd(e_lost_s, e_extr_aqs),
                      RMul(C, RSub(lim.t_max_bc, t_deposito_actual)))
            ELSE p_hp
        e_hp_descida ==
            IF RLt(t_prox_0, lim.t_min_bc)
            THEN RMin(RAdd(RAdd(e_lost_s, e_extr_aqs),
                           RMul(C, RSub(lim.t_min_bc, t_prox_0))),
                      b.pot_termica_bc)
            ELSE Zero
        e_hp       == RMax(e_hp_subida, e_hp_descida)
        t_prox_dep == RAdd(t_deposito_actual,
                           RDiv(RSub(RSub(e_hp, e_lost_s), e_extr_aqs), C))
        e_bu       == energia_resistencia(b, modo_op, deriv_t, t_prox_dep,
                                          lim.t_max_s, lim.t_min_s)
        t_deposito_prox ==
            RAdd(t_deposito_actual,
                 RDiv(RSub(RSub(RAdd(e_hp, e_bu), e_lost_s), e_extr_aqs), C))
        u == EnergiaUsadaBc(b, e_hp)
    IN  [t_deposito_prox |-> t_deposito_prox, e_hp |-> e_hp, e_bu |-> e_bu,
         e_used_bc |-> u.e_used_bc, e_lost_s |-> e_lost_s,
         lim |-> lim, deriv_t |-> deriv_t, p_hp |-> p_hp, t_prox_0 |-> t_prox_0,
         e_hp_subida |-> e_hp_subida, e_hp_descida |-> e_hp_descida,
         t_prox_dep |-> t_prox_dep, cr |-> u.cr, f_cop |-> u.f_cop,
         erro |-> u.erro \/ C = Zero]

\* parameter sets: the defaults, the defaults with the resistance enabled in
\* ECO, a negative differential r0, SP3 above SP1 with the resistance
\* enabled, and negative differentials r0 and r7
ParametrosBC ==
    {ParametrosBombaCalor,
     [ParametrosBombaCalor EXCEPT !.usa_resist = TRUE],
     [ParametrosBombaCalor EXCEPT !.r0 = Num(-5)],
     [ParametrosBombaCalor EXCEPT !.usa_resist = TRUE, !.SP3 = Num(56)],
     [ParametrosBombaCalor EXCEPT !.r0 = Num(-10), !.r7 = Num(-15)]}

\* (poder_calorifico_deposito, u_kw) of the tanks
Depositos == {<<Frac(1, 4), Frac(1, 32)>>, <<Frac(1, 4), Frac(1, 256)>>}

BombasCalor ==
    {BombaCalorAqs(Num(2), Frac(18, 5), Frac(3, 2), p, dep, Frac(1, 2)) :
        p \in ParametrosBC, dep \in Depositos}

\* tank temperatures at the start of an interval
Temperaturas ==
    {Num(14), Num(44), Num(47), Num(50), Num(52), Num(53), Num(56), Num(61), Num(66)}

\* change of the tank temperature over the interval before
Derivadas == {Num(-1), Zero, Num(1)}

\* room temperatures
TemperaturasSala == {Num(14), Num(20)}

\* energy drawn as hot water in an interval
Extraccoes == {Zero, Frac(1, 2), Num(3)}

\* a heat pump on which the controller has not been called
InitControlador ==
    /\ DespachoParado
    /\ LegadoParado
    /\ SimulacaoParada
    /\ PerfilParado
    /\ bc \in BombasCalor
    /\ ctl = [op |-> "nenhuma"]

\* a call of calcula_temperatura_deposito_intervalo; the method changes no
\* field of the object, so one call per behaviour covers every call
CalculaIntervalo ==
    /\ bc.construida
    /\ ctl.op = "nenhuma"
    /\ \E t_sala \in TemperaturasSala, t_actual \in Temperaturas, dt \in Derivadas,
          e_extr \in Extraccoes, modo_op \in Modos, modo_op_anterior \in Modos :
          LET t_anterior == RSub(t_actual, dt)
          IN  ctl' = [op |-> "calcula", t_sala |-> t_sala, t_deposito_actual |-> t_actual,
                      t_deposito_anterior |-> t_anterior, e_extr_aqs |-> e_extr,
                      modo_op |-> modo_op, modo_op_anterior |-> modo_op_anterior,
                      r |-> calcula_temperatura_deposito_intervalo(
                                bc, t_sala, t_actual, t_anterior, e_extr,
                                modo_op, modo_op_anterior)]
    /\ UNCHANGED <<despacho, legado, ultima, bc, sim, px, sem, ind>>

NextControlador == CalculaIntervalo

SpecControlador == InitControlador /\ [][NextControlador]_vars

----------------------------------------------------------------------------
\* the controller has been called
Calculado == ctl.op = "calcula"

(* C14: for every operating mode and every parameter set the constructor   *)
(* of the heat pump accepts, the thresholds the controller derives satisfy *)
(* t_min_bc <= t_max_bc and t_min_s <= t_max_s.                            *)
C14_LimitesOrdenados ==
    Calculado =>
        /\ RLe(ctl.r.lim.t_min_bc, ctl.r.lim.t_max_bc)
        /\ RLe(ctl.r.lim.t_min_s, ctl.r.lim.t_max_s)

\* the on/off rule of the compressor, from the arguments of the call
RegraLigada ==
    LET deriv == RSub(ctl.t_deposito_actual, ctl.t_deposito_anterior)
    IN  \/ RLe(Zero, deriv) /\ RLt(ctl.t_deposito_actual, ctl.r.lim.t_max_bc)
        \/ RLt(deriv, Zero) /\ RLt(ctl.t_deposito_actual, ctl.r.lim.t_min_bc)
        \/ ctl.modo_op > ctl.modo_op_anterior

(* C15: the compressor runs at its nominal thermal power exactly when      *)
(* (deriv >= 0 and t_actual < t_max_bc) or (deriv < 0 and t_actual <       *)
(* t_min_bc) or the mode ranks higher than the previous mode, and at 0     *)
(* otherwise; with the mode unchanged it is off at t_actual >= t_max_bc    *)
(* while rising and off in [t_min_bc, t_max_bc) while falling.             *)
C15_RegraHisterese ==
    Calculado =>
        LET deriv == RSub(ctl.t_deposito_actual, ctl.t_deposito_anterior)
        IN  /\ ctl.r.p_hp = IF RegraLigada THEN bc.pot_termica_bc ELSE Zero
            /\ ( /\ ctl.modo_op = ctl.modo_op_anterior
                 /\ RLe(Zero, deriv)
                 /\ RLe(ctl.r.lim.t_max_bc, ctl.t_deposito_actual) ) => ctl.r.p_hp = Zero
            /\ ( /\ ctl.modo_op = ctl.modo_op_anterior
                 /\ RLt(deriv, Zero)
                 /\ RLe(ctl.r.lim.t_min_bc, ctl.t_deposito_actual)
                 /\ RLt(ctl.t_deposito_actual, ctl.r.lim.t_max_bc) ) => ctl.r.p_hp = Zero

\* the tank cools inside the hysteresis band with the mode unchanged, and the
\* compressor stays off
C15_Witness ==
    /\ Calculado
    /\ ctl.modo_op = ctl.modo_op_anterior
    /\ RLt(ctl.t_deposito_actual, ctl.t_deposito_anterior)
    /\ RLe(ctl.r.lim.t_min_bc, ctl.t_deposito_actual)
    /\ RLt(ctl.t_deposito_actual, ctl.r.lim.t_max_bc)
    /\ ctl.r.p_hp = Zero

(* C16: in every interval where the final thermal energy of the compressor *)
(* e_hp is 0, the electrical consumption e_used_bc is 0 and no division by *)
(* zero is raised (nominal thermal power > 0).                             *)
C16_SemEnergiaSemConsumo ==
    (Calculado /\ RLt(Zero, bc.pot_termica_bc) /\ ctl.r.e_hp = Zero) =>
        /\ ctl.r.e_used_bc = Zero
        /\ ~ctl.r.erro

\* the compressor delivered nothing in the interval
C16_Witness ==
    /\ Calculado
    /\ RLt(Zero, bc.pot_termica_bc)
    /\ ctl.r.e_hp = Zero
    /\ ctl.r.p_hp = Zero

----------------------------------------------------------------------------
(* Construction of the objects: bateria.__init__ (bateria.py) and          *)
(* ParametrosBombaCalor, BombaCalorAqs.__init__ (bomba_calor_aqs.py)       *)

\* arguments a caller may pass to bateria(capacidade, soc_min, soc_max)
CapacidadesPedidas == {Num(-1), Num(1), Frac(6, 5)}

LimitesSocPedidos == {Num(20), Num(80)}

\* nothing has been built
InitConstrucao ==
    /\ DespachoParado
    /\ LegadoParado
    /\ BombaCalorParada
    /\ SimulacaoParada
    /\ PerfilParado

\* bateria(capacidade, soc_min, soc_max): __init__ stores its arguments and
\* has no raise statement
ConstroiBateria ==
    /\ ultima.op = "nenhuma"
    /\ \E c \in CapacidadesPedidas, smin \in LimitesSocPedidos, smax \in LimitesSocPedidos :
          legado' = BateriaLegada(c, smin, smax)
    /\ ultima' = [op |-> "constroi"]
    /\ UNCHANGED <<despacho, bc, ctl, sim, px, sem, ind>>

\* BombaCalorAqs(pot_termica_bc, cop, pot_resist, params, vol, bu): the
\* dataclass and __init__ store their arguments and have no raise statement
ConstroiBombaCalor ==
    /\ ~bc.construida
    /\ bc' \in BombasCalor
    /\ UNCHANGED <<despacho, legado, ultima, ctl, sim, px, sem, ind>>

NextConstrucao == ConstroiBateria \/ ConstroiBombaCalor

SpecConstrucao == InitConstrucao /\ [][NextConstrucao]_vars

\* a battery object exists
BateriaConstruida == ultima.op # "nenhuma"

\* soc_min < soc_max and the capacity is not negative
BateriaValida(b) == RLt(b.soc_min, b.soc_max) /\ RLe(Zero, b.capacidade)

\* the setpoints are rightly ordered: r0 is not negative, and SP3 is not
\* above SP1 when the resistance is used below the minimum
ParametrosValidos(p) == RLe(Zero, p.r0) /\ (p.usa_resist => RLe(p.SP3, p.SP1))

(* C18: constructing a battery with soc_min >= soc_max or a negative       *)
(* capacity, or a heat pump with wrongly ordered setpoints (negative r0,   *)
(* SP3 above SP1 with the resistance enabled), fails at construction: no   *)
(* usable object with such a configuration comes to exist.                 *)
C18_ConfiguracaoValidada ==
    /\ BateriaConstruida => BateriaValida(legado)
    /\ bc.construida => ParametrosValidos(bc.params)

----------------------------------------------------------------------------
(* Hot-water extraction profile: aosol/armazenamento/perfil_extraccao.py   *)
(* A time of day is its minute, 0..1439 (datetime.time compares as such);  *)
(* a timestamp is a count of minutes, so that it may run past one day.     *)

MaxDuracao == 3

\* datetime.time(): the time of day of a timestamp
HoraDoDia(ts) == ts % 1440

\* timestamp + timedelta(hours=duracao)
MaisHoras(ts, duracao) == ts + 60 * duracao

\* sum of the energia of the first k rows of tabela whose index is at or
\* after hora_1 and before hora_2
RECURSIVE SomaLinhas(_, _, _, _)
SomaLinhas(tabela, hora_1, hora_2, k) ==
    IF k = 0 THEN Zero
    ELSE RAdd(SomaLinhas(tabela, hora_1, hora_2, k - 1),
              IF tabela[k].hora >= hora_1 /\ tabela[k].hora < hora_2
              THEN tabela[k].energia ELSE Zero)

\* PerfilExtraccao.extraccao_aqs_intervalo(timestamp_inicio, duracao)
extraccao_aqs_intervalo(tabela, timestamp_inicio, duracao) ==
    LET hora_1 == HoraDoDia(timestamp_inicio)
        hora_2 == HoraDoDia(MaisHoras(timestamp_inicio, duracao))
    IN  SomaLinhas(tabela, hora_1, hora_2, Len(tabela))

\* a row of the table read from perfil_extraccao.csv: start time and energy
LinhaPerfil(hh, mm, energia_kwh) == [hora |-> 60 * hh + mm, energia |-> energia_kwh]

\* the column of one profile: draws in the morning and in the evening, the
\* last one at 21:30 (as in profile S of EN 16147), and the same column with
\* one more draw at 23:30
Perfis ==
    {<<LinhaPerfil(7, 0, Frac(1, 4)), LinhaPerfil(7, 30, Frac(1, 4)),
       LinhaPerfil(20, 30, Frac(1, 2)), LinhaPerfil(21, 30, Frac(3, 4))>>,
     <<LinhaPerfil(7, 0, Frac(1, 4)), LinhaPerfil(7, 30, Frac(1, 4)),
       LinhaPerfil(20, 30, Frac(1, 2)), LinhaPerfil(21, 30, Frac(3, 4)),
       LinhaPerfil(23, 30, Frac(1, 4))>>}

\* times of day at which a lookup starts
Inicios == {0, 7 * 60, 12 * 60, 20 * 60 + 30, 21 * 60, 22 * 60, 23 * 60}

Duracoes == 1..MaxDuracao

\* a profile object that has not been queried
InitPerfil ==
    /\ DespachoParado
    /\ LegadoParado
    /\ BombaCalorParada
    /\ SimulacaoParada
    /\ \E tabela \in Perfis : px = [op |-> "nenhuma", tabela |-> tabela]

\* lookups of a window of d1 hours, of the window of d2 hours that follows
\* it, and of the two together; the lookup changes no field of the object
Consulta ==
    /\ px.op = "nenhuma"
    /\ \E t \in Inicios, d1 \in Duracoes, d2 \in Duracoes :
          px' = [op |-> "consulta", tabela |-> px.tabela, inicio |-> t, d1 |-> d1, d2 |-> d2,
                 e1  |-> extraccao_aqs_intervalo(px.tabela, t, d1),
                 e2  |-> extraccao_aqs_intervalo(px.tabela, MaisHoras(t, d1), d2),
                 e12 |-> extraccao_aqs_intervalo(px.tabela, t, d1 + d2)]
    /\ UNCHANGED <<despacho, legado, ultima, bc, ctl, sim, sem, ind>>

NextPerfil == Consulta

SpecPerfil == InitPerfil /\ [][NextPerfil]_vars

\* the draws of the daily profile that start in [ts, ts + 60*d) minutes, the
\* profile repeating every day
RECURSIVE SomaJanela(_, _, _, _)
SomaJanela(tabela, ts, d, k) ==
    IF k = 0 THEN Zero
    ELSE LET vezes == Cardinality({m \in ts..(ts + 60 * d - 1) : m % 1440 = tabela[k].hora})
         IN  RAdd(SomaJanela(tabela, ts, d, k - 1),
                  RMul(Num(vezes), tabela[k].energia))

(* C19: for every start time of day t and duration d in hours the lookup   *)
(* returns the sum of the draws of the profile whose start time lies in    *)
(* [t, t+d), also when the window ends at midnight or crosses it; so the   *)
(* lookups of consecutive windows add up to the lookup of their union.     *)
C19_SomaNaJanela ==
    px.op = "consulta" =>
        /\ px.e1 = SomaJanela(px.tabela, px.inicio, px.d1, Len(px.tabela))
        /\ px.e12 = SomaJanela(px.tabela, px.inicio, px.d1 + px.d2, Len(px.tabela))
        /\ px.e12 = RAdd(px.e1, px.e2)

----------------------------------------------------------------------------
(* Heat-pump simulation loop: analisa_consumo_bomba_calor                  *)
(* (aosol/analise/analise_bomba_calor.py)                                  *)

MaxLinhasBC == 2

\* rows of the frame: outside temperature and operating mode
LinhasBC == {[t_ext |-> te, modo_op |-> m] : te \in {Num(8), Num(20)}, m \in Modos}

SeriesBC == UNION {[1..k -> LinhasBC] : k \in 1..MaxLinhasBC}

\* the argument t_deposito_inicial: the default -1.0 and tank temperatures
TemperaturasIniciais == {Num(-1), Num(46), Num(53)}

\* the heat pumps simulated: every parameter set, on the tank that loses most
BombasCalorSimuladas ==
    {BombaCalorAqs(Num(2), Frac(18, 5), Frac(3, 2), p, <<Frac(1, 4), Frac(1, 32)>>,
                   Frac(1, 2)) : p \in ParametrosBC}

\* faulty variant: the temperature the controller returned is not carried over
EstadoLinha_SemRetorno(idx, l, t_sala, t_deposito_inicial, modo_linha) ==
    IF idx = 0 THEN
        [t_deposito_ant |-> IF RLt(t_deposito_inicial, Zero) THEN t_sala
                            ELSE t_deposito_inicial,
         t_deposito |-> IF RLt(t_deposito_inicial, Zero) THEN t_sala
                        ELSE t_deposito_inicial,
         modo_op_anterior |-> modo_linha, modo_op |-> modo_linha, ts_prox |-> l.ts_prox]
    ELSE
        [t_deposito_ant |-> l.t_deposito, t_deposito |-> l.t_deposito,
         modo_op_anterior |-> l.modo_op, modo_op |-> modo_linha, ts_prox |-> l.ts_prox]

\* lines 59-72: the locals t_deposito_ant, t_deposito, modo_op_anterior and
\* modo_op with which the controller is called at row idx (0-based)
EstadoLinha(idx, l, t_sala, t_deposito_inicial, modo_linha) ==
    IF idx = 0 THEN
        [t_deposito_ant |-> IF RLt(t_deposito_inicial, Zero) THEN t_sala
                            ELSE t_deposito_inicial,
         t_deposito |-> IF RLt(t_deposito_inicial, Zero) THEN t_sala
                        ELSE t_deposito_inicial,
         modo_op_anterior |-> modo_linha, modo_op |-> modo_linha, ts_prox |-> l.ts_prox]
    ELSE
        [t_deposito_ant |-> l.t_deposito, t_deposito |-> l.ts_prox,
         modo_op_anterior |-> l.modo_op, modo_op |-> modo_linha, ts_prox |-> l.ts_prox]

\* the locals before the first row
SemLocaisBC ==
    [t_deposito_ant |-> Zero, t_deposito |-> Zero, modo_op_anterior |-> ECO,
     modo_op |-> ECO, ts_prox |-> Zero]

\* a frame, a heat pump, a profile and the other arguments, before the call
InitBC ==
    /\ DespachoParado
    /\ LegadoParado
    /\ PerfilParado
    /\ bc \in BombasCalorSimuladas
    /\ ctl = [op |-> "nenhuma"]
    /\ \E linhas \in SeriesBC, t0 \in TemperaturasIniciais, tabela \in Perfis,
          inicio \in {7 * 60, 21 * 60} :
          sim = [pc |-> "idle", i |-> 0, linhas |-> linhas, inicio |-> inicio,
                 t_int |-> Num(20), t_deposito_inicial |-> t0, tabela |-> tabela,
                 loc |-> SemLocaisBC, chamadas |-> <<>>, colunas |-> <<>>]

\* line 56: entry of analisa_consumo_bomba_calor
ChamaBC ==
    /\ sim.pc = "idle"
    /\ sim' = [sim EXCEPT !.pc = "loop", !.i = 0]
    /\ UNCHANGED <<despacho, legado, ultima, bc, ctl, px, sem, ind>>

\* lines 57-86: one iteration of the loop, on row sim.i of the hourly frame
IteraBC ==
    /\ sim.pc = "loop"
    /\ sim.i < Len(sim.linhas)
    /\ \E row \in {sim.linhas[sim.i + 1]}, index \in {MaisHoras(sim.inicio, sim.i)} :
       \E t_sala \in {calcula_temperatura_sala_deposito(bc, sim.t_int, row.t_ext)} :
       \E l \in {EstadoLinha(sim.i, sim.loc, t_sala, sim.t_deposito_inicial, row.modo_op)},
          energia_extr_aqs \in {extraccao_aqs_intervalo(sim.tabela, index, 1)} :
       \E r \in {calcula_temperatura_deposito_intervalo(
                     bc, t_sala, l.t_deposito, l.t_deposito_ant, energia_extr_aqs,
                     l.modo_op, l.modo_op_anterior)} :
          sim' = [sim EXCEPT
                    !.i = sim.i + 1,
                    !.loc = [l EXCEPT !.ts_prox = r.t_deposito_prox],
                    !.chamadas = Append(sim.chamadas,
                        [t_sala |-> t_sala, t_deposito_actual |-> l.t_deposito,
                         t_deposito_anterior |-> l.t_deposito_ant,
                         e_extr_aqs |-> energia_extr_aqs, modo_op |-> l.modo_op,
                         modo_op_anterior |-> l.modo_op_anterior, r |-> r]),
                    !.colunas = Append(sim.colunas,
                        [t_deposito |-> l.t_deposito, t_sala |-> t_sala,
                         energia_perd_dep |-> r.e_lost_s,
                         energia_extr_aqs |-> energia_extr_aqs,
                         energia_bc |-> r.e_hp, energia_resist |-> r.e_bu,
                         energia_usada_bc |-> r.e_used_bc])]
    /\ UNCHANGED <<despacho, legado, ultima, bc, ctl, px, sem, ind>>

\* line 88: the frame is returned
TerminaBC ==
    /\ sim.pc = "loop"
    /\ sim.i = Len(sim.linhas)
    /\ sim' = [sim EXCEPT !.pc = "feito"]
    /\ UNCHANGED <<despacho, legado, ultima, bc, ctl, px, sem, ind>>

NextBC == ChamaBC \/ IteraBC \/ TerminaBC

SpecBC == InitBC /\ [][NextBC]_vars

----------------------------------------------------------------------------
\* the room temperature of row k (1-based) of the frame
TSala(k) == calcula_temperatura_sala_deposito(bc, sim.t_int, sim.linhas[k].t_ext)

\* the rows the loop has gone through
LinhasFeitas == IF sim.pc \in {"loop", "feito"} THEN 1..Len(sim.chamadas) ELSE {}

(* C17: at row 0 the controller is called with t_previous = t_current =    *)
(* the room temperature, or the caller's initial tank temperature when it  *)
(* is >= 0; at every row i > 0 it is called with t_current = the t_next    *)
(* returned at row i-1 and t_previous = the t_current of row i-1; and the  *)
(* t_deposito column of row i holds that t_current.                        *)
C17_EstadoEncadeado ==
    \A k \in LinhasFeitas :
        LET c == sim.chamadas[k]
        IN  /\ k = 1 =>
                  LET semente == IF RLe(Zero, sim.t_deposito_inicial)
                                 THEN sim.t_deposito_inicial ELSE TSala(1)
                  IN  c.t_deposito_actual = semente /\ c.t_deposito_anterior = semente
            /\ k > 1 =>
                  /\ c.t_deposito_actual = sim.chamadas[k - 1].r.t_deposito_prox
                  /\ c.t_deposito_anterior = sim.chamadas[k - 1].t_deposito_actual
            /\ sim.colunas[k].t_deposito = c.t_deposito_actual

\* a run of two rows has returned, the tank temperature having changed in
\* the first
C17_Witness ==
    /\ sim.pc = "feito"
    /\ Len(sim.chamadas) >= 2
    /\ sim.chamadas[2].t_deposito_actual # sim.chamadas[1].t_deposito_actual
    /\ sim.chamadas[2].t_deposito_anterior = sim.chamadas[1].t_deposito_actual
    /\ RLt(sim.t_deposito_inicial, Zero)

----------------------------------------------------------------------------
(* Analysis without storage: analisa_upac_sem_armazenamento                *)
(* (aosol/analise/analise_energia.py), next to the dispatch loop run with  *)
(* a battery that has no usable capacity                                   *)

\* faulty variant: the inverter efficiency is left out
EnergiaBidireccionalSemBateria_SemInversor(carga_i, pv_i, eficiencia_inversor, intervalo) ==
    RMul(RSub(carga_i, pv_i), intervalo)

\* (carga - pv*eficiencia_inversor)*intervalo
EnergiaBidireccionalSemBateria(carga_i, pv_i, eficiencia_inversor, intervalo) ==
    RMul(RSub(carga_i, RMul(pv_i, eficiencia_inversor)), intervalo)

\* analisa_upac_sem_armazenamento(energia, eficiencia_inversor, intervalo):
\* the columns it writes
analisa_upac_sem_armazenamento(consumo, autoproducao, eficiencia_inversor, intervalo) ==
    LET pv    == PotenciaKW(autoproducao, intervalo)
        carga == PotenciaKW(consumo, intervalo)
        ebr   == [k \in 1..Len(pv) |->
                     EnergiaBidireccionalSemBateria(carga[k], pv[k],
                                                    eficiencia_inversor, intervalo)]
        cr    == ConsumoRede(ebr)
    IN  [feito |-> TRUE, consumo_rede |-> cr, injeccao_rede |-> InjeccaoRede(ebr),
         autoconsumo |-> Autoconsumo(consumo, cr)]

\* batteries whose depth of discharge is 0: an empty window, or no capacity
BateriasSemCapacidade ==
    {Bateria(Frac(5, 4), Frac(1, 2), Frac(1, 2), ef, pm) :
        ef \in EficienciasBateria, pm \in PotenciasMaximas}
    \cup {Bateria(Zero, Frac(1, 10), Frac(9, 10), ef, pm) :
        ef \in EficienciasBateria, pm \in PotenciasMaximas}

\* a frame, a battery without usable capacity and the seed 0 (given, or the
\* default, half of the depth of discharge), before either analysis is run
InitSemBateria ==
    /\ \E rows \in Series(Linhas) :
          energia = [consumo      |-> [k \in 1..Len(rows) |-> rows[k][1]],
                     autoproducao |-> [k \in 1..Len(rows) |-> rows[k][2]],
                     saida        |-> SemColunas]
    /\ bat \in BateriasSemCapacidade
    /\ \E iv \in Intervalos, ei \in EficienciasInversor, nn \in BOOLEAN :
          args = [intervalo |-> iv, eficiencia_inversor |-> ei,
                  soc_0_none |-> nn, soc_0 |-> Zero]
    /\ pc = "idle"
    /\ i = 0
    /\ loc = SemLocais
    /\ anterior = SemColunas
    /\ chamadas = 0
    /\ OutrosParados
    /\ SemArmazenamentoParado
    /\ IndicadoresParados

\* a call of analisa_upac_sem_armazenamento on a copy of the input columns
AnalisaSemArmazenamento ==
    /\ pc = "idle"
    /\ ~sem.feito
    /\ sem' = analisa_upac_sem_armazenamento(energia.consumo, energia.autoproducao,
                                             args.eficiencia_inversor, args.intervalo)
    /\ UNCHANGED <<despacho, legado, ultima, bc, ctl, sim, px, ind>>

NextSemBateria == Chama \/ Itera \/ Termina \/ AnalisaSemArmazenamento

SpecSemBateria == InitSemBateria /\ [][NextSemBateria]_vars

(* C20: for every input series, inverter efficiency and interval, the      *)
(* dispatch loop run with a battery of depth of discharge 0 and seed 0     *)
(* yields the same autoconsumo, consumo_rede and injeccao_rede as          *)
(* analisa_upac_sem_armazenamento, which computes consumo_rede = max(0,    *)
(* consumo - autoproducao*inverter_eff) and injeccao_rede = max(0,         *)
(* autoproducao*inverter_eff - consumo).                                   *)
C20_SemBateriaDegenera ==
    /\ (Feito /\ sem.feito) =>
          /\ Saida.autoconsumo = sem.autoconsumo
          /\ Saida.consumo_rede = sem.consumo_rede
          /\ Saida.injeccao_rede = sem.injeccao_rede
    /\ sem.feito =>
          \A k \in 1..NLinhas :
              LET liq == RSub(energia.consumo[k],
                              RMul(energia.autoproducao[k], args.eficiencia_inversor))
              IN  /\ sem.consumo_rede[k] = RMax(Zero, liq)
                  /\ sem.injeccao_rede[k] = RMax(Zero, RNeg(liq))

\* both analyses have run on a frame with a row in deficit and a row in
\* surplus, through a lossy inverter, and the battery stayed idle
C20_Witness ==
    /\ Feito
    /\ sem.feito
    /\ DoD = Zero
    /\ RLt(args.eficiencia_inversor, Num(1))
    /\ \E k \in 1..NLinhas : RPos(Saida.consumo_rede[k])
    /\ \E k \in 1..NLinhas : RPos(Saida.injeccao_rede[k])
    /\ \A k \in 1..NLinhas : Saida.carga_bateria[k] = Zero /\ Saida.descarga_bateria[k] = Zero

----------------------------------------------------------------------------
(* Properties of one interval of the controller (SpecControlador)          *)

\* e_lost + extraction + C_tank*(t_max_bc - t_actual): the energy that takes
\* the tank exactly to t_max_bc
EnergiaSaturada ==
    RAdd(RAdd(ctl.r.e_lost_s, ctl.e_extr_aqs),
         RMul(bc.poder_calorifico_deposito,
              RSub(ctl.r.lim.t_max_bc, ctl.t_deposito_actual)))

\* the provisional temperature, with the on/off power, is above t_max_s
AcimaDoMaximo == RLt(ctl.r.lim.t_max_s, ctl.r.t_prox_0)

(* C21: in any interval where the provisional temperature with the on/off  *)
(* power of the compressor exceeds t_max_s and the saturated energy        *)
(* e_lost + extraction + C_tank*(t_max_bc - t_actual) is not negative, the *)
(* final energy of the compressor is that saturated amount, strictly less  *)
(* than the nominal power, and the recomputed t_prime is t_max_bc exactly. *)
C21_Saturacao ==
    (Calculado /\ AcimaDoMaximo /\ RLe(Zero, EnergiaSaturada)) =>
        /\ ctl.r.e_hp = EnergiaSaturada
        /\ RLt(ctl.r.e_hp, bc.pot_termica_bc)
        /\ ctl.r.t_prox_dep = ctl.r.lim.t_max_bc

\* the same, for parameter sets with rightly ordered setpoints
C21_SaturacaoValidos ==
    (Calculado /\ ParametrosValidos(bc.params)) => C21_Saturacao

\* with rightly ordered setpoints, the compressor was cut back to the
\* saturated energy
C21_Witness ==
    /\ Calculado
    /\ ParametrosValidos(bc.params)
    /\ AcimaDoMaximo
    /\ RLt(Zero, EnergiaSaturada)
    /\ ctl.r.e_hp = EnergiaSaturada

\* the constructor argument r0 is not negative
HistereseNaoNegativa == RLe(Zero, bc.params.r0)

\* the inputs C22 speaks of: r0 >= 0, extraction >= 0, room not warmer than
\* the tank, tank not above the maximum of the mode
DentroDoMaximo ==
    /\ Calculado
    /\ HistereseNaoNegativa
    /\ RLe(Zero, ctl.e_extr_aqs)
    /\ RLe(ctl.t_sala, ctl.t_deposito_actual)
    /\ RLe(ctl.t_deposito_actual, ctl.r.lim.t_max_s)

(* C22: for every mode, every parameter set with r0 >= 0, every non-negative
   extraction and every room temperature not above the tank temperature, a
   tank that starts at or below t_max_s is at or below t_max_s at the
   temperature recomputed with the final compressor energy alone. *)
C22_CompressorAbaixoDoMaximo ==
    DentroDoMaximo => RLe(ctl.r.t_prox_dep, ctl.r.lim.t_max_s)

\* the capacity ratio before the code's clamp at 1
RazaoCapacidade == RDiv(ctl.r.e_hp, bc.pot_termica_bc)

(* C26: with r0 >= 0 and a positive nominal power, for every mode,
   temperature pair, extraction and room temperature the final thermal
   energy of the compressor satisfies 0 <= e_hp <= P_hp, so that e_hp / P_hp
   lies in [0, 1]. *)
C26_EnergiaCompressorLimitada ==
    (Calculado /\ HistereseNaoNegativa /\ RLt(Zero, bc.pot_termica_bc)) =>
        /\ RLe(Zero, ctl.r.e_hp)
        /\ RLe(ctl.r.e_hp, bc.pot_termica_bc)
        /\ RLe(Zero, RazaoCapacidade)
        /\ RLe(RazaoCapacidade, Num(1))

\* the fall branch asked for more than the nominal power and was capped
C26_Witness ==
    /\ Calculado
    /\ HistereseNaoNegativa
    /\ ctl.r.p_hp = Zero
    /\ RLt(bc.pot_termica_bc,
           RAdd(RAdd(ctl.r.e_lost_s, ctl.e_extr_aqs),
                RMul(bc.poder_calorifico_deposito,
                     RSub(ctl.r.lim.t_min_bc, ctl.r.t_prox_0))))
    /\ ctl.r.e_hp = bc.pot_termica_bc

\* energy the fall branch asks for, before its cap at the nominal power
EnergiaDescidaLivre ==
    RAdd(RAdd(ctl.r.e_lost_s, ctl.e_extr_aqs),
         RMul(bc.poder_calorifico_deposito,
              RSub(ctl.r.lim.t_min_bc, ctl.r.t_prox_0)))

\* the on/off rule left the compressor off, losses and extraction take the
\* tank below t_min_bc, and the fall branch is not capped
PisoDaHisterese ==
    /\ Calculado
    /\ ctl.r.p_hp = Zero
    /\ RLt(ctl.r.t_prox_0, ctl.r.lim.t_min_bc)
    /\ RLe(EnergiaDescidaLivre, bc.pot_termica_bc)

(* C27: in an interval where the on/off rule leaves the compressor off but
   losses and extraction would take the tank below t_min_bc, and the energy
   of the fall branch is not capped by P_hp, the compressor delivers exactly
   the energy that brings the tank to t_min_bc: the recomputed t_prime
   equals t_min_bc. *)
C27_PisoDaHisterese ==
    PisoDaHisterese => ctl.r.t_prox_dep = ctl.r.lim.t_min_bc

\* temperature of the tank with the energy of compressor and resistance
ComResistencia ==
    RAdd(ctl.r.t_prox_dep, RDiv(ctl.r.e_bu, bc.poder_calorifico_deposito))

(* C23: in every interval 0 <= e_bu <= P_bu; in ECO e_bu is 0 whenever
   usa_resist is false, and otherwise the resistance never lifts the tank
   above t_min_s (SP3); in AUT and PV the resistance never lifts the tank
   above t_max_s: t_prime + e_bu / C_tank <= t_max_s whenever e_bu > 0. *)
C23_ResistenciaLimitada ==
    Calculado =>
        /\ RLe(Zero, ctl.r.e_bu)
        /\ RLe(ctl.r.e_bu, bc.pot_resist)
        /\ (ctl.modo_op = ECO /\ ~bc.params.usa_resist) => ctl.r.e_bu = Zero
        /\ (ctl.modo_op = ECO /\ RLt(Zero, ctl.r.e_bu)) =>
               RLe(ComResistencia, ctl.r.lim.t_min_s)
        /\ (ctl.modo_op # ECO /\ RLt(Zero, ctl.r.e_bu)) =>
               RLe(ComResistencia, ctl.r.lim.t_max_s)

\* in AUT or PV the resistance ran at its full power and the tank stayed
\* below the maximum
C23_Witness ==
    /\ Calculado
    /\ ctl.modo_op # ECO
    /\ ctl.r.e_bu = bc.pot_resist
    /\ RLt(ComResistencia, ctl.r.lim.t_max_s)

\* in ECO the resistance brought the tank up to SP3
C23_WitnessEco ==
    /\ Calculado
    /\ ctl.modo_op = ECO
    /\ RLt(Zero, ctl.r.e_bu)
    /\ ComResistencia = ctl.r.lim.t_min_s

\* the same on rightly ordered setpoints
C23_ResistenciaLimitadaValidos ==
    (Calculado /\ ParametrosValidos(bc.params)) => C23_ResistenciaLimitada

\* AUT or PV, and the post-compressor temperature is below t_min_s
AbaixoDoMinimo ==
    /\ Calculado
    /\ ctl.modo_op # ECO
    /\ RLt(Zero, bc.pot_resist)
    /\ RLt(ctl.r.t_prox_dep, ctl.r.lim.t_min_s)

(* C28: in AUT and PV, whenever the post-compressor temperature t_prime is
   below t_min_s the resistance delivers energy (e_bu > 0, given P_bu > 0),
   for every temperature trend, the one of the first row of a run
   (t_previous = t_current) included. *)
C28_ResistenciaAbaixoDoMinimo ==
    AbaixoDoMinimo => RLt(Zero, ctl.r.e_bu)

\* the same on rightly ordered setpoints when the tank is rising or falling
C28_ResistenciaComTendencia ==
    (AbaixoDoMinimo /\ ParametrosValidos(bc.params) /\ ctl.r.deriv_t # Zero) =>
        RLt(Zero, ctl.r.e_bu)

----------------------------------------------------------------------------
(* Properties of the rows of the heat-pump loop (SpecBC) *)

\* row k (1-based) has a mode that ranks higher than the row before it
ModoSobe(k) == k > 1 /\ sim.linhas[k].modo_op > sim.linhas[k - 1].modo_op

\* the mode-change rule is on in the call made for row k
MudancaDeModo(k) == sim.chamadas[k].modo_op > sim.chamadas[k].modo_op_anterior

\* one of the two temperature rules is on in the call made for row k
RegraTemperatura(k) ==
    LET c     == sim.chamadas[k]
        deriv == RSub(c.t_deposito_actual, c.t_deposito_anterior)
    IN  \/ RLe(Zero, deriv) /\ RLt(c.t_deposito_actual, c.r.lim.t_max_bc)
        \/ RLt(deriv, Zero) /\ RLt(c.t_deposito_actual, c.r.lim.t_min_bc)

(* C24: in the heat-pump loop the mode-change rule forces the compressor to
   its nominal power exactly in the rows i > 0 whose modo_op ranks higher
   than that of row i - 1 (ECO < AUT < PV); it never fires at row 0, never
   when the mode goes down, and never in later rows with the mode
   unchanged: there the compressor follows the temperature rules alone. *)
C24_MudancaDeModo ==
    \A k \in LinhasFeitas :
        /\ MudancaDeModo(k) <=> ModoSobe(k)
        /\ ModoSobe(k) => sim.chamadas[k].r.p_hp = bc.pot_termica_bc
        /\ (~ModoSobe(k) /\ ~RegraTemperatura(k)) => sim.chamadas[k].r.p_hp = Zero

\* a run of two rows has returned: in the second the mode went up while
\* neither temperature rule was on, and the compressor ran
C24_Witness ==
    /\ sim.pc = "feito"
    /\ Len(sim.chamadas) >= 2
    /\ ModoSobe(2)
    /\ ~RegraTemperatura(2)
    /\ sim.chamadas[2].r.p_hp = bc.pot_termica_bc

\* a run of two rows has returned: in the second the mode went down while
\* neither temperature rule was on, and the compressor stayed off
C24_WitnessDesce ==
    /\ sim.pc = "feito"
    /\ Len(sim.chamadas) >= 2
    /\ sim.linhas[2].modo_op < sim.linhas[1].modo_op
    /\ ~RegraTemperatura(2)
    /\ sim.chamadas[2].r.p_hp = Zero

----------------------------------------------------------------------------
(* Both loops in one specification: a run is either a call of
   analisa_upac_com_armazenamento or a call of analisa_consumo_bomba_calor *)

\* the dispatch loop is taken with a lossy inverter and quarter-hour rows,
\* the heat-pump loop from 07:00 with a tank at room temperature or at 53
InitLacos ==
    \/ Init /\ args.intervalo = Frac(1, 4) /\ args.eficiencia_inversor = Frac(9, 10)
    \/ InitBC /\ sim.inicio = 7 * 60 /\ sim.t_deposito_inicial # Num(46)

NextLacos == Chama \/ Itera \/ Termina \/ ChamaBC \/ IteraBC \/ TerminaBC

SpecLacos == InitLacos /\ [][NextLacos]_vars

\* series that agree with s on rows 1..k: s cut after row k, and s with each
\* of its later rows replaced by a row of S
Variantes(s, S, k) ==
    {SubSeq(s, 1, k)} \cup
    {[j \in 1..Len(s) |-> IF j <= k THEN s[j] ELSE l] : l \in S}

\* the first k entries of every column of a record of columns
Prefixo(colunas, k) == [c \in DOMAIN colunas |-> SubSeq(colunas[c], 1, k)]

\* one iteration of the loop of analisa_upac_com_armazenamento on the locals
\* a, r being what the battery returned for row k (1-based)
PassoDespachoCom(a, r, k) ==
    [a EXCEPT
       !.soc[k] = r.soc_actual,
       !.energia_bidireccional_rede[k] =
           EnergiaBidireccional(a.carga[k], a.pv[k], r.pot_descarga, r.pot_carga,
                                args.eficiencia_inversor, args.intervalo),
       !.descarga_bateria[k] = EnergiaKWh(r.pot_descarga, args.intervalo),
       !.carga_bateria[k] = EnergiaKWh(r.pot_carga, args.intervalo)]

\* the same, with the call of the battery of the state
PassoDespacho(a, k) ==
    CHOOSE x \in {PassoDespachoCom(a, r, k) :
                    r \in {calcula_energia_maximiza_autoconsumo(
                               bat, SocAnterior(k - 1, a.soc, a.soc_0), a.demanda_dc[k],
                               args.intervalo)}} : TRUE

\* the locals of analisa_upac_com_armazenamento after k iterations from l
RECURSIVE LacoDespacho(_, _)
LacoDespacho(l, k) ==
    IF k = 0 THEN l
    ELSE CHOOSE x \in {PassoDespacho(a, k) : a \in {LacoDespacho(l, k - 1)}} : TRUE

\* the output columns written from the locals at the end of the loop
ColunasDespacho(consumo, fim) ==
    [consumo_rede     |-> ConsumoRede(fim.energia_bidireccional_rede),
     injeccao_rede    |-> InjeccaoRede(fim.energia_bidireccional_rede),
     autoconsumo      |-> Autoconsumo(consumo,
                                      ConsumoRede(fim.energia_bidireccional_rede)),
     carga_bateria    |-> fim.carga_bateria,
     descarga_bateria |-> fim.descarga_bateria,
     soc              |-> fim.soc]

\* the locals at the entry of the loop, from the columns in kW
LocaisDespacho(pv, carga) ==
    [pv |-> pv, carga |-> carga, soc |-> Zeros(Len(pv)),
     energia_bidireccional_rede |-> Zeros(Len(pv)),
     carga_bateria |-> Zeros(Len(pv)), descarga_bateria |-> Zeros(Len(pv)),
     soc_0 |-> SocInicial(args.soc_0_none, args.soc_0, bat),
     demanda_dc |-> DemandaDc(carga, pv, args.eficiencia_inversor)]

\* the output columns of analisa_upac_com_armazenamento on the rows
\* <<consumo, autoproducao>> of another frame, with the battery and the
\* arguments of the state
CorridaDespacho(rows) ==
    CHOOSE x \in
        {ColunasDespacho(consumo, fim) :
            consumo \in {[k \in 1..Len(rows) |-> rows[k][1]]},
            fim \in {LacoDespacho(
                        LocaisDespacho(
                            PotenciaKW([k \in 1..Len(rows) |-> rows[k][2]],
                                       args.intervalo),
                            PotenciaKW([k \in 1..Len(rows) |-> rows[k][1]],
                                       args.intervalo)),
                        Len(rows))}} : TRUE

\* the locals and the output rows of analisa_consumo_bomba_calor after one
\* more row, r being what the controller returned
PassoBCCom(a, t_sala, l, e, r) ==
    [loc |-> [l EXCEPT !.ts_prox = r.t_deposito_prox],
     colunas |-> Append(a.colunas,
         [t_deposito |-> l.t_deposito, t_sala |-> t_sala,
          energia_perd_dep |-> r.e_lost_s, energia_extr_aqs |-> e,
          energia_bc |-> r.e_hp, energia_resist |-> r.e_bu,
          energia_usada_bc |-> r.e_used_bc])]

\* the same, with the call of the controller of the state
PassoBCLinha(a, t_sala, l, e) ==
    CHOOSE x \in {PassoBCCom(a, t_sala, l, e, r) :
                    r \in {calcula_temperatura_deposito_intervalo(
                               bc, t_sala, l.t_deposito, l.t_deposito_ant, e,
                               l.modo_op, l.modo_op_anterior)}} : TRUE

\* the same, for row k (1-based) and the room temperature of that row
PassoBCSala(a, row, k, t_sala) ==
    CHOOSE x \in {PassoBCLinha(a, t_sala, l, e) :
                    l \in {EstadoLinha(k - 1, a.loc, t_sala, sim.t_deposito_inicial,
                                       row.modo_op)},
                    e \in {extraccao_aqs_intervalo(
                               sim.tabela, MaisHoras(sim.inicio, k - 1), 1)}} : TRUE

\* one iteration of the loop of analisa_consumo_bomba_calor on row k
PassoBC(a, row, k) ==
    CHOOSE x \in {PassoBCSala(a, row, k, t_sala) :
                    t_sala \in {calcula_temperatura_sala_deposito(
                                    bc, sim.t_int, row.t_ext)}} : TRUE

\* the locals and the output rows of analisa_consumo_bomba_calor after k rows
\* of another frame, with the heat pump and the arguments of the state
RECURSIVE CorridaBC(_, _)
CorridaBC(linhas, k) ==
    IF k = 0 THEN [loc |-> SemLocaisBC, colunas |-> <<>>]
    ELSE CHOOSE x \in {PassoBC(a, linhas[k], k) :
                         a \in {CorridaBC(linhas, k - 1)}} : TRUE

\* the rows of the frame of the dispatch loop
LinhasDoDespacho ==
    [k \in 1..NLinhas |-> <<energia.consumo[k], energia.autoproducao[k]>>]

\* the dispatch loop has returned: every frame that agrees with its frame on
\* rows 1..k gives the same rows 1..k of the output
SemPrevisaoDespacho ==
    Feito =>
        \A k \in 1..NLinhas :
            \A outra \in Variantes(LinhasDoDespacho, Linhas, k) :
                Prefixo(CorridaDespacho(outra), k) = Prefixo(Saida, k)

\* the heat-pump loop has returned: the same for its frame
SemPrevisaoBC ==
    sim.pc = "feito" =>
        \A k \in 1..Len(sim.linhas) :
            \A outra \in Variantes(sim.linhas, LinhasBC, k) :
                SubSeq(CorridaBC(outra, Len(outra)).colunas, 1, k) =
                    SubSeq(sim.colunas, 1, k)

(* C25: no forecasting.  For both loops, two input series that agree on
   rows 0..k, with the same configuration and seed, give identical output
   columns on rows 0..k, whatever the later rows contain: the output of row
   i depends only on the seed and on rows 0..i. *)
C25_SemPrevisao == SemPrevisaoDespacho /\ SemPrevisaoBC

\* a run of the dispatch loop over two rows that differ has returned
C25_Witness ==
    /\ Feito
    /\ NLinhas = 2
    /\ LinhasDoDespacho[1] # LinhasDoDespacho[2]
    /\ Saida.soc[1] # Saida.soc[2]

\* a run of the heat-pump loop over two rows that differ has returned
C25_WitnessBC ==
    /\ sim.pc = "feito"
    /\ Len(sim.linhas) = 2
    /\ sim.linhas[1] # sim.linhas[2]
    /\ sim.colunas[1] # sim.colunas[2]

----------------------------------------------------------------------------
(* Indicators: calcula_indicadores_autoconsumo
   (aosol/analise/analise_energia.py), called on the frame the dispatch
   loop returned *)

\* Series.sum(): the sum of the first k entries of a column
RECURSIVE SomaColuna(_, _)
SomaColuna(col, k) == IF k = 0 THEN Zero ELSE RAdd(SomaColuna(col, k - 1), col[k])

\* faulty variant: the inverter losses are taken on the whole production, the
\* losses of the battery not being taken out
calcula_indicadores_autoconsumo_PerdasSemBateria(e, ef_inv, com_bateria, b, intervalo) ==
    LET n                    == Len(e.consumo)
        total_consumo        == SomaColuna(e.consumo, n)
        total_consumo_rede   == SomaColuna(e.saida.consumo_rede, n)
        total_injeccao_rede  == SomaColuna(e.saida.injeccao_rede, n)
        total_autoconsumo    == SomaColuna(e.saida.autoconsumo, n)
        total_autoproducao   == SomaColuna(e.autoproducao, n)
        ias == RMul(RDiv(total_autoconsumo, total_consumo), Num(100))
        iac == RMul(RDiv(total_autoconsumo, total_autoproducao), Num(100))
        total_descarga_bateria ==
            IF com_bateria THEN SomaColuna(e.saida.descarga_bateria, n) ELSE Zero
        perdas_bateria ==
            IF com_bateria
            THEN RSub(SomaColuna(e.saida.carga_bateria, n), total_descarga_bateria)
            ELSE Zero
        perdas_inversor == RMul(total_autoproducao, RSub(Num(1), ef_inv))
    IN  [feito |-> TRUE, com_bateria |-> com_bateria,
         iac |-> iac, ias |-> ias, ier |-> RSub(Num(100), iac),
         energia_autoproduzida |-> total_autoproducao,
         energia_autoconsumida |-> total_autoconsumo,
         energia_rede |-> total_consumo_rede,
         energia_injectada_rede |-> total_injeccao_rede,
         consumo_total |-> total_consumo,
         perdas_inversor |-> perdas_inversor,
         residuo |-> RSub(RSub(RSub(RSub(RAdd(total_autoproducao, total_consumo_rede),
                                         total_injeccao_rede),
                                    perdas_inversor),
                               perdas_bateria),
                          total_consumo),
         fornecido_bateria |-> total_descarga_bateria,
         perdas_bateria |-> perdas_bateria,
         num_ciclos_bateria |->
             IF com_bateria
             THEN RMul(Num(365),
                       RDiv(RMul(total_descarga_bateria, intervalo),
                            RMul(Num(365), b.capacidade_total)))
             ELSE Zero,
         capacidade_bateria |-> IF com_bateria THEN b.capacidade_total ELSE Zero]

\* calcula_indicadores_autoconsumo(energia, pot_instalada, ef_inv, bat,
\* intervalo): the fields of the indicadores_autoconsumo object it returns;
\* com_bateria: bat is not None.  pot_instalada is handed on unchanged, and
\* the totals by tariff period, which depend on the timestamps alone, are
\* left out.
calcula_indicadores_autoconsumo(e, ef_inv, com_bateria, b, intervalo) ==
    LET n                    == Len(e.consumo)
        total_consumo        == SomaColuna(e.consumo, n)
        total_consumo_rede   == SomaColuna(e.saida.consumo_rede, n)
        total_injeccao_rede  == SomaColuna(e.saida.injeccao_rede, n)
        total_autoconsumo    == SomaColuna(e.saida.autoconsumo, n)
        total_autoproducao   == SomaColuna(e.autoproducao, n)
        ias == RMul(RDiv(total_autoconsumo, total_consumo), Num(100))
        iac == RMul(RDiv(total_autoconsumo, total_autoproducao), Num(100))
        total_descarga_bateria ==
            IF com_bateria THEN SomaColuna(e.saida.descarga_bateria, n) ELSE Zero
        perdas_bateria ==
            IF com_bateria
            THEN RSub(SomaColuna(e.saida.carga_bateria, n), total_descarga_bateria)
            ELSE Zero
        perdas_inversor ==
            RMul(RSub(total_autoproducao, perdas_bateria), RSub(Num(1), ef_inv))
    IN  [feito |-> TRUE, com_bateria |-> com_bateria,
         iac |-> iac, ias |-> ias, ier |-> RSub(Num(100), iac),
         energia_autoproduzida |-> total_autoproducao,
         energia_autoconsumida |-> total_autoconsumo,
         energia_rede |-> total_consumo_rede,
         energia_injectada_rede |-> total_injeccao_rede,
         consumo_total |-> total_consumo,
         perdas_inversor |-> perdas_inversor,
         residuo |-> RSub(RSub(RSub(RSub(RAdd(total_autoproducao, total_consumo_rede),
                                         total_injeccao_rede),
                                    perdas_inversor),
                               perdas_bateria),
                          total_consumo),
         fornecido_bateria |-> total_descarga_bateria,
         perdas_bateria |-> perdas_bateria,
         num_ciclos_bateria |->
             IF com_bateria
             THEN RMul(Num(365),
                       RDiv(RMul(total_descarga_bateria, intervalo),
                            RMul(Num(365), b.capacidade_total)))
             ELSE Zero,
         capacidade_bateria |-> IF com_bateria THEN b.capacidade_total ELSE Zero]

\* a call of calcula_indicadores_autoconsumo on the frame the dispatch loop
\* returned, with the inverter efficiency of the run, with or without the
\* battery, and intervalo left at its default of 1
CalculaIndicadores ==
    /\ pc = "idle"
    /\ chamadas > 0
    /\ ~ind.feito
    /\ \E com_bateria \in BOOLEAN :
          ind' = calcula_indicadores_autoconsumo(energia, args.eficiencia_inversor,
                                                 com_bateria, bat, Num(1))
    /\ UNCHANGED <<despacho, legado, ultima, bc, ctl, sim, px, sem>>

NextIndicadores == Chama \/ Itera \/ Termina \/ CalculaIndicadores

\* the frames of the dispatch loop, with a battery that can move energy
InitIndicadores == Init /\ bat.pot_maxima # Zero

SpecIndicadores == InitIndicadores /\ [][NextIndicadores]_vars

(* C29: whole-run energy balance.  For the output of any run of the
   dispatch loop (any seed, efficiencies and interval) the control residual
   calcula_indicadores_autoconsumo computes with the battery -- total
   autoproducao + total consumo_rede - total injeccao_rede - inverter
   losses - battery losses - total consumo -- is 0. *)
C29_ResiduoNulo ==
    (ind.feito /\ ind.com_bateria) => ind.residuo = Zero

\* the indicators of a run in which the battery took in more than it gave
\* back, through a lossy inverter
C29_Witness ==
    /\ ind.feito
    /\ ind.com_bateria
    /\ RLt(Zero, ind.perdas_bateria)
    /\ RLt(Zero, ind.perdas_inversor)
    /\ RLt(Zero, ind.energia_rede)

----------------------------------------------------------------------------
(* C30: mutual exclusion per step.  For a seed within [0, DoD] and
   non-negative inputs, in no row of the dispatch output are carga_bateria
   and descarga_bateria both positive, in no row are consumo_rede and
   injeccao_rede both positive, and all four columns are non-negative. *)
C30_ExclusaoMutua ==
    (Feito /\ SementeValida) =>
        \A k \in 1..NLinhas :
            /\ ~(RPos(Saida.carga_bateria[k]) /\ RPos(Saida.descarga_bateria[k]))
            /\ ~(RPos(Saida.consumo_rede[k]) /\ RPos(Saida.injeccao_rede[k]))
            /\ RLe(Zero, Saida.carga_bateria[k])
            /\ RLe(Zero, Saida.descarga_bateria[k])
            /\ RLe(Zero, Saida.consumo_rede[k])
            /\ RLe(Zero, Saida.injeccao_rede[k])

\* a run with a seed inside the window: the first row charges the battery
\* and injects, the second discharges it and draws from the grid
C30_Witness ==
    /\ Feito
    /\ SementeValida
    /\ ~args.soc_0_none
    /\ NLinhas = 2
    /\ RPos(Saida.carga_bateria[1]) /\ RPos(Saida.injeccao_rede[1])
    /\ RPos(Saida.descarga_bateria[2]) /\ RPos(Saida.consumo_rede[2])

====
